---- MODULE Spec2Model ----
(***************************************************************************)
(* A model of the `fix` command (cli/src/commands/fix.rs) and of the diff  *)
(* renderers (cli/src/diff_util.rs) of jj.                                 *)
(*                                                                         *)
(* Seven specifications share the variables:                               *)
(*   Spec      cmd_fix driving fix_files and fix_one_file                  *)
(*   SpecCfg   get_tools_config applied to every small `fix.tools` table   *)
(*   SpecPipe  run_tool's threads and pipes, one byte at a time            *)
(*   SpecDiff  unified_diff_hunks applied to every small diff, and         *)
(*             show_git_diff of its hunks                                  *)
(*   SpecWords show_color_words_diff_hunks, one line of the diff at a time *)
(*   SpecStat  show_diff_stat, one path at a time                          *)
(*   SpecColor show_color_words_diff, one path at a time                   *)
(***************************************************************************)
EXTENDS Integers, Sequences, FiniteSets, TLC

VARIABLES
    \* ---- cmd_fix
    pc,             \* position of cmd_fix
    tools_config,   \* Result of get_tools_config, once loaded
    root_commits,   \* the root commits the revsets evaluated to
    tx,             \* "none", "started", "finished"
    files_done,     \* per-file callbacks fix_files has collected
    fix_error,      \* some callback returned a FixError
    fix_files_result, \* "none", "Ok", "Err": what fix_files returned
    spawned,        \* history: some tool subprocess was run
    store,          \* the contents written to the store by this command
    \* ---- fix_one_file
    fpc,            \* position of the current fix_one_file call
    file_to_fix,    \* its FileToFix: [repo_path, file_id]
    matching_tools, \* indices into tools_config.tools the matcher accepts
    old_content,    \* bytes read for file_id
    new_content,    \* the fold's accumulator
    log,            \* history: one entry per run_tool call of this call
    last_run,       \* history: what the subprocess of the last run_tool did
    reads,          \* history: store reads of this call
    writes,         \* history: store writes of this call
    result,         \* what the call returned
    \* ---- get_tools_config alone
    table,          \* the `fix.tools` table
    table_keys,     \* the order settings.table_keys enumerates it in
    cfg_result,     \* what get_tools_config returned for it
    \* ---- run_tool's threads, the tool and the two pipes
    ppc,            \* position of the thread that called run_tool
    wpc,            \* position of the scoped thread that writes stdin
    tpc,            \* "none", "running", "exited": the tool
    capacity,       \* bytes a pipe buffers
    input_left,     \* bytes of old_content the writer has yet to write
    stdin_pipe,     \* bytes buffered in the tool's stdin pipe
    stdin_open,     \* <<write end open, read end open>>
    write_failed,   \* write_all returned an error
    child,          \* how the tool behaves: [order, reads_all, status]
    saw_eof,        \* the tool read end-of-input
    output_left,    \* bytes the tool has yet to write to stdout
    stdout_pipe,    \* bytes buffered in the tool's stdout pipe
    output,         \* bytes of stdout wait_with_output has collected
    run_result,     \* what run_tool returned
    \* ---- unified_diff_hunks
    dpc,            \* "loop", "returned", "shown"
    diff,           \* history: the hunks diff.hunks() has yielded
    num_context_lines,
    hunks,          \* the Vec<UnifiedDiffHunk>, returned in the end
    current_hunk,
    show_context_after,
    \* ---- the renderers
    left_value,     \* the path's tree value before: "absent" or a TreeValues
    right_value,    \* the path's tree value after
    out,            \* what was written to the formatter: [label, str, bytes]
    \* ---- show_color_words_diff_hunks
    cpc,            \* "loop", "returned"
    diff_lines,     \* history: the lines files::diff has yielded
    context,        \* the VecDeque of unmodified lines not yet printed
    skipped_context,
    context_before,
    \* ---- show_diff_stat
    spc,            \* "loop", "shown", "panicked"
    stats,          \* the Vec<DiffStat>
    max_path_length,
    max_diffs,
    term_width,     \* what ui.term_width() returned: None or Some(width)
    display_width,
    max_bar_length,
    \* ---- show_color_words_diff
    hpc,            \* "loop", "done"
    num_shown       \* paths of the tree diff shown so far

cmdVars == <<pc, tools_config, root_commits, tx, files_done, fix_error,
             fix_files_result, spawned, store>>
fileVars == <<fpc, file_to_fix, matching_tools, old_content, new_content, log,
              last_run, reads, writes, result>>
cfgVars == <<table, table_keys, cfg_result>>
pipeVars == <<ppc, wpc, tpc, capacity, input_left, stdin_pipe, stdin_open,
              write_failed, child, saw_eof, output_left, stdout_pipe, output,
              run_result>>
diffVars == <<dpc, diff, num_context_lines, hunks, current_hunk, show_context_after,
              left_value, right_value, out>>
wordsVars == <<cpc, diff_lines, context, skipped_context, context_before>>
statVars == <<spc, stats, max_path_length, max_diffs, term_width, display_width,
              max_bar_length>>
colorVars == <<hpc, num_shown>>
vars == <<cmdVars, fileVars, cfgVars, pipeVars, diffVars, wordsVars, statVars, colorVars>>

(***************************************************************************)
(* Bounds of the model.                                                    *)
(***************************************************************************)
MaxTools == 2       \* entries of a `fix.tools` table
MaxFiles == 2       \* files fix_files hands to the callback in one command
MaxPipe == 2        \* largest capacity of a pipe, in bytes
MaxInput == 3       \* largest old_content run_tool writes to stdin, in bytes
MaxOutput == 3      \* most bytes a tool writes to stdout
MaxLines == 6       \* most lines of left_content and of right_content
MaxContext == 3     \* largest num_context_lines
MaxShown == 4       \* most lines of a content whose diff is rendered
MaxDiffLines == 14  \* most lines files::diff yields
MaxModified == 2    \* most modified lines among them
MaxStat == 2        \* most lines a path of the stat adds, and removes
MaxEntries == 1     \* most paths of a tree diff shown in color words
MaxTermWidth == 14  \* widest terminal besides the default

\* Bytes: a file content is a sequence of bytes; tools are external programs,
\* so contents are compared only for equality.
Contents == {<<97>>, <<65>>}
\* Repo-relative paths.
Paths == {"f.txt", "g.py"}
\* Keys of `fix.tools` are strings, i.e. byte sequences: "B", "a", "ab".
Names == {<<66>>, <<97>>, <<97, 98>>}

NoContent == <<>>

(***************************************************************************)
(* Results.                                                                *)
(***************************************************************************)
Ok(v) == [ok |-> TRUE, val |-> v, err |-> ""]
Err(e) == [ok |-> FALSE, val |-> <<>>, err |-> e]

(***************************************************************************)
(* get_tools_config (fix.rs 304-347).                                      *)
(***************************************************************************)
\* The pattern strings an entry may list; "(" does not parse as a fileset.
Patterns == {"glob:*.txt", "glob:*.py", "("}

\* fileset::parse of one pattern: whether it parses.
PatternParses(arg) ==
    arg # "("

\* The paths the matcher of a parsed pattern accepts.
PatternPaths(arg) ==
    CASE arg = "glob:*.txt" -> {"f.txt"}
      [] arg = "glob:*.py" -> {"g.py"}
      [] OTHER -> {}

\* An entry of the table as stored in the configuration: whether it
\* deserializes to a RawToolConfig, and the fields it then has.
RawToolConfigs ==
    [deserializes : BOOLEAN, patterns : SUBSET Patterns, enabled : BOOLEAN]

\* The `fix.tools` tables: at most MaxTools keys.
Tables ==
    UNION {[K -> RawToolConfigs] : K \in {S \in SUBSET Names : Cardinality(S) <= MaxTools}}

\* The orders in which table_keys may enumerate the keys K.
Enumerations(K) ==
    {e \in [1..Cardinality(K) -> K] : \A i, j \in 1..Cardinality(K) : i # j => e[i] # e[j]}

\* Ord for String: lexicographic on the bytes.
RECURSIVE StrLess(_, _)
StrLess(a, b) ==
    IF b = <<>> THEN FALSE
    ELSE IF a = <<>> THEN TRUE
    ELSE IF Head(a) # Head(b) THEN Head(a) < Head(b)
    ELSE StrLess(Tail(a), Tail(b))

\* Insert key k into the ascending sequence s.
RECURSIVE InsertSorted(_, _)
InsertSorted(k, s) ==
    IF s = <<>> THEN <<k>>
    ELSE IF StrLess(k, Head(s)) THEN <<k>> \o s
    ELSE <<Head(s)>> \o InsertSorted(k, Tail(s))

\* A plausible slip: the keys are used in enumeration order.
RECURSIVE SortedNot(_)
SortedNot(keys) ==
    IF keys = <<>> THEN <<>> ELSE <<Head(keys)>> \o SortedNot(Tail(keys))

\* .sorted() (line 308).
RECURSIVE Sorted(_)
Sorted(keys) ==
    IF keys = <<>> THEN <<>> ELSE InsertSorted(Head(keys), Sorted(Tail(keys)))

\* The closure of lines 309-334 for one key: a ToolConfig or the error.
\* ToolConfig has no name field (line 274); `name` here is a history field
\* that records which key the entry came from.
LoadTool(name, tbl) ==
    LET tool == tbl[name] IN
    IF ~tool.deserializes THEN Err("deserialize")
    ELSE IF \E arg \in tool.patterns : ~PatternParses(arg) THEN Err("fileset parse")
    ELSE Ok([name |-> name,
             matcher |-> UNION {PatternPaths(arg) : arg \in tool.patterns},
             enabled |-> tool.enabled])

\* .map(..).try_collect()? (lines 309-335): the first error in key order, or
\* all the ToolConfigs.
RECURSIVE TryCollect(_, _)
TryCollect(names, tbl) ==
    IF names = <<>> THEN Ok(<<>>)
    ELSE LET first == LoadTool(Head(names), tbl) IN
         IF ~first.ok THEN first
         ELSE LET rest == TryCollect(Tail(names), tbl) IN
              IF ~rest.ok THEN rest ELSE Ok(<<first.val>> \o rest.val)

\* tools.retain(|t| t.enabled) (line 339).
Retain(tools) ==
    SelectSeq(tools, LAMBDA t : t.enabled)

\* A plausible slip: the emptiness of the table is tested after retain only.
get_tools_config_one_check(keys, tbl) ==
    LET collected == TryCollect(Sorted(keys), tbl) IN
    IF ~collected.ok THEN collected
    ELSE IF Retain(collected.val) = <<>>
         THEN Err("At least one entry of fix.tools must be enabled.")
    ELSE Ok(Retain(collected.val))

get_tools_config(keys, tbl) ==
    LET collected == TryCollect(Sorted(keys), tbl) IN
    IF ~collected.ok THEN collected
    ELSE IF collected.val = <<>> THEN Err("No fix.tools are configured")
    ELSE IF Retain(collected.val) = <<>>
         THEN Err("At least one entry of fix.tools must be enabled.")
    ELSE Ok(Retain(collected.val))

(***************************************************************************)
(* run_tool (fix.rs 232-264).                                              *)
(***************************************************************************)
\* What the subprocess of one run_tool call does, as seen by run_tool:
\*   spawn    command.spawn() succeeded
\*   write    stdin.write_all(old_content) succeeded (the tool may close its
\*            stdin, or exit, before it has read everything)
\*   wait     child.wait_with_output() succeeded
\*   success  output.status.success()
\*   stdout   output.stdout
NoRun == [spawn |-> FALSE, write |-> FALSE, wait |-> FALSE, success |-> FALSE,
          stdout |-> NoContent]
ToolRuns ==
    {NoRun}
    \cup {[NoRun EXCEPT !.spawn = TRUE, !.write = w] : w \in BOOLEAN}
    \cup [spawn : {TRUE}, write : BOOLEAN, wait : {TRUE}, success : BOOLEAN,
          stdout : Contents]

\* A plausible slip: the exit status is not looked at.
run_tool_any_status(run) ==
    IF ~run.spawn THEN Err("spawn")
    ELSE IF ~run.wait THEN Err("wait")
    ELSE Ok(run.stdout)

\* The Result run_tool returns. The Result of write_all is dropped by .ok()
\* (line 253), so run.write is not read.
run_tool(run) ==
    IF ~run.spawn THEN Err("spawn")
    ELSE IF ~run.wait THEN Err("wait")
    ELSE IF run.success THEN Ok(run.stdout)
    ELSE Err("status")

NoTool == [order |-> "any", status |-> 0]

\* UnifiedDiffHunk (diff_util.rs 528-532) with empty ranges and no lines.
NewHunk(left_start, right_start) ==
    [left_line_range |-> [start |-> left_start, end |-> left_start],
     right_line_range |-> [start |-> right_start, end |-> right_start],
     lines |-> <<>>]

(***************************************************************************)
(* fix_one_file (fix.rs 179-222).                                          *)
(***************************************************************************)
\* The store is content addressed: a FileId names the bytes.
FileIdOf(content) == [file_id |-> content]
ContentOf(id) == id.file_id
FilesToFix == [repo_path : Paths, file_id : {FileIdOf(c) : c \in Contents}]

None == <<>>
Some(v) == <<v>>

\* A plausible slip: every configured tool is taken, whatever its matcher.
matching_tools_all(tools, repo_path) ==
    [i \in 1..Len(tools) |-> i]

\* tools.iter().filter(|t| t.matcher.matches(repo_path)) (lines 185-189), as
\* the indices of the tools in configured order.
matching_tools_of(tools, repo_path) ==
    SelectSeq([i \in 1..Len(tools) |-> i], LAMBDA i : repo_path \in tools[i].matcher)

\* The closure of the fold (lines 199-211).
fold_step(prev_content, next) ==
    IF next.ok THEN next.val ELSE prev_content

NoFile == [repo_path |-> "", file_id |-> FileIdOf(NoContent)]

\* Lines 185-190 and 221.
FixFilter ==
    /\ fpc = "call"
    /\ LET m == matching_tools_of(tools_config.val, file_to_fix.repo_path) IN
       /\ matching_tools' = m
       /\ IF m = <<>>
          THEN fpc' = "returned" /\ result' = Ok(None)
          ELSE fpc' = "read_file" /\ result' = result
    /\ UNCHANGED <<file_to_fix, old_content, new_content, log, last_run, reads, writes>>
    /\ UNCHANGED <<cmdVars, cfgVars, pipeVars, diffVars, wordsVars, statVars, colorVars>>

\* Lines 194-198, and the fold's initial value old_content.clone() (199).
FixRead ==
    /\ fpc = "read_file"
    /\ reads' = reads + 1
    /\ \E read_ok \in BOOLEAN :
         IF read_ok
         THEN /\ old_content' = ContentOf(file_to_fix.file_id)
              /\ new_content' = ContentOf(file_to_fix.file_id)
              /\ fpc' = "fold"
              /\ result' = result
         ELSE /\ fpc' = "returned"
              /\ result' = Err("read")
              /\ UNCHANGED <<old_content, new_content>>
    /\ UNCHANGED <<file_to_fix, matching_tools, log, last_run, writes>>
    /\ UNCHANGED <<cmdVars, cfgVars, pipeVars, diffVars, wordsVars, statVars, colorVars>>

\* A plausible slip: a failed tool ends the fold.
FixRunToolStopOnErr ==
    /\ fpc = "fold"
    /\ Len(log) < Len(matching_tools)
    /\ \E run \in ToolRuns :
         LET next == run_tool(run) IN
         /\ new_content' = fold_step(new_content, next)
         /\ log' = Append(log, [tool |-> matching_tools[Len(log) + 1],
                                input |-> new_content,
                                ok |-> next.ok, out |-> next.val])
         /\ last_run' = run
         /\ matching_tools' = IF next.ok THEN matching_tools
                              ELSE SubSeq(matching_tools, 1, Len(log) + 1)
    /\ spawned' = TRUE
    /\ UNCHANGED <<fpc, file_to_fix, old_content, reads, writes, result>>
    /\ UNCHANGED <<pc, tools_config, root_commits, tx, files_done, fix_error,
                   fix_files_result, store>>
    /\ UNCHANGED <<cfgVars, pipeVars, diffVars, wordsVars, statVars, colorVars>>

\* One iteration of the fold (lines 199-212): the next matching tool runs on
\* the accumulator.
FixRunTool ==
    /\ fpc = "fold"
    /\ Len(log) < Len(matching_tools)
    /\ \E run \in ToolRuns :
         LET next == run_tool(run) IN
         /\ new_content' = fold_step(new_content, next)
         /\ log' = Append(log, [tool |-> matching_tools[Len(log) + 1],
                                input |-> new_content,
                                ok |-> next.ok, out |-> next.val])
         /\ last_run' = run
    /\ spawned' = TRUE
    /\ UNCHANGED <<fpc, file_to_fix, matching_tools, old_content, reads, writes, result>>
    /\ UNCHANGED <<pc, tools_config, root_commits, tx, files_done, fix_error,
                   fix_files_result, store>>
    /\ UNCHANGED <<cfgVars, pipeVars, diffVars, wordsVars, statVars, colorVars>>

\* A plausible slip: the result is written back whether or not it changed.
FixCompareNot ==
    /\ fpc = "fold"
    /\ Len(log) = Len(matching_tools)
    /\ fpc' = "write_file"
    /\ UNCHANGED <<file_to_fix, matching_tools, old_content, new_content, log,
                   last_run, reads, writes, result>>
    /\ UNCHANGED <<cmdVars, cfgVars, pipeVars, diffVars, wordsVars, statVars, colorVars>>

\* Lines 213 and 221, once the fold is over.
FixCompare ==
    /\ fpc = "fold"
    /\ Len(log) = Len(matching_tools)
    /\ IF new_content # old_content
       THEN fpc' = "write_file" /\ result' = result
       ELSE fpc' = "returned" /\ result' = Ok(None)
    /\ UNCHANGED <<file_to_fix, matching_tools, old_content, new_content, log,
                   last_run, reads, writes>>
    /\ UNCHANGED <<cmdVars, cfgVars, pipeVars, diffVars, wordsVars, statVars, colorVars>>

\* Lines 215-218.
FixWrite ==
    /\ fpc = "write_file"
    /\ writes' = writes + 1
    /\ \E write_ok \in BOOLEAN :
         IF write_ok
         THEN /\ store' = store \cup {new_content}
              /\ result' = Ok(Some(FileIdOf(new_content)))
         ELSE /\ store' = store
              /\ result' = Err("write")
    /\ fpc' = "returned"
    /\ UNCHANGED <<file_to_fix, matching_tools, old_content, new_content, log,
                   last_run, reads>>
    /\ UNCHANGED <<pc, tools_config, root_commits, tx, files_done, fix_error,
                   fix_files_result, spawned>>
    /\ UNCHANGED <<cfgVars, pipeVars, diffVars, wordsVars, statVars, colorVars>>

(***************************************************************************)
(* fix_files and ParallelFileFixer (jj_lib::fix): the collaborator that    *)
(* hands files to the callback and returns the callback's error, if any.   *)
(***************************************************************************)
\* The callback is called for one more file.
FixFilesCall ==
    /\ pc = "fix_files"
    /\ fpc = "idle"
    /\ files_done < MaxFiles
    /\ \E f \in FilesToFix : file_to_fix' = f
    /\ fpc' = "call"
    /\ matching_tools' = <<>>
    /\ old_content' = NoContent
    /\ new_content' = NoContent
    /\ log' = <<>>
    /\ last_run' = NoRun
    /\ reads' = 0
    /\ writes' = 0
    /\ result' = Ok(None)
    /\ UNCHANGED <<cmdVars, cfgVars, pipeVars, diffVars, wordsVars, statVars, colorVars>>

\* The callback's result is collected.
FixFilesCollect ==
    /\ pc = "fix_files"
    /\ fpc = "returned"
    /\ fpc' = "idle"
    /\ files_done' = files_done + 1
    /\ fix_error' = (fix_error \/ ~result.ok)
    /\ UNCHANGED <<file_to_fix, matching_tools, old_content, new_content, log,
                   last_run, reads, writes, result>>
    /\ UNCHANGED <<pc, tools_config, root_commits, tx, fix_files_result, spawned, store>>
    /\ UNCHANGED <<cfgVars, pipeVars, diffVars, wordsVars, statVars, colorVars>>

\* fix_files returns: the summary, or the error of a callback.
FixFilesReturn ==
    /\ pc = "fix_files"
    /\ fpc = "idle"
    /\ fix_files_result' = IF fix_error THEN "Err" ELSE "Ok"
    /\ pc' = "fix_files_returned"
    /\ UNCHANGED <<tools_config, root_commits, tx, files_done, fix_error, spawned, store>>
    /\ UNCHANGED <<fileVars, cfgVars, pipeVars, diffVars, wordsVars, statVars, colorVars>>

(***************************************************************************)
(* cmd_fix (fix.rs 125-165).                                               *)
(***************************************************************************)
Commits == {"mutable", "immutable"}

\* What check_rewritable looks at.
Rewritable(commit) ==
    commit # "immutable"

CmdUnchanged ==
    UNCHANGED <<files_done, fix_error, fix_files_result, spawned, store, fileVars,
                cfgVars, pipeVars, diffVars, wordsVars, statVars, colorVars>>

\* Lines 130-131: command.workspace_helper(ui)?
CmdWorkspaceHelper ==
    /\ pc = "workspace_helper"
    /\ \E helper_ok \in BOOLEAN :
         pc' = IF helper_ok THEN "get_tools_config" ELSE "done_err"
    /\ UNCHANGED <<tools_config, root_commits, tx>>
    /\ CmdUnchanged

\* Line 132: get_tools_config(ui, settings)?
CmdGetToolsConfig ==
    /\ pc = "get_tools_config"
    /\ \E tbl \in Tables : \E keys \in Enumerations(DOMAIN tbl) :
         /\ tools_config' = get_tools_config(keys, tbl)
         /\ pc' = IF tools_config'.ok THEN "revsets" ELSE "done_err"
    /\ UNCHANGED <<root_commits, tx>>
    /\ CmdUnchanged

\* Lines 133-140: the revsets are parsed and evaluated to commit ids.
CmdRevsets ==
    /\ pc = "revsets"
    /\ \E revsets_ok \in BOOLEAN :
         IF revsets_ok
         THEN /\ root_commits' \in SUBSET Commits
              /\ pc' = "check_rewritable"
         ELSE /\ root_commits' = root_commits
              /\ pc' = "done_err"
    /\ UNCHANGED <<tools_config, tx>>
    /\ CmdUnchanged

\* A plausible slip: the Result of check_rewritable is dropped.
CmdCheckRewritableNot ==
    /\ pc = "check_rewritable"
    /\ pc' = "parse_file_patterns"
    /\ UNCHANGED <<tools_config, root_commits, tx>>
    /\ CmdUnchanged

\* Line 141: workspace_command.check_rewritable(root_commits.iter())?
CmdCheckRewritable ==
    /\ pc = "check_rewritable"
    /\ pc' = IF \A c \in root_commits : Rewritable(c)
             THEN "parse_file_patterns" ELSE "done_err"
    /\ UNCHANGED <<tools_config, root_commits, tx>>
    /\ CmdUnchanged

\* Lines 142-144: parse_file_patterns(ui, &args.paths)?
CmdParseFilePatterns ==
    /\ pc = "parse_file_patterns"
    /\ \E patterns_ok \in BOOLEAN :
         pc' = IF patterns_ok THEN "start_transaction" ELSE "done_err"
    /\ UNCHANGED <<tools_config, root_commits, tx>>
    /\ CmdUnchanged

\* Lines 146-156: the transaction starts and fix_files is called.
CmdStartTransaction ==
    /\ pc = "start_transaction"
    /\ tx' = "started"
    /\ pc' = "fix_files"
    /\ UNCHANGED <<tools_config, root_commits>>
    /\ CmdUnchanged

\* A plausible slip: the Result of fix_files is dropped.
CmdFixFilesReturnedNot ==
    /\ pc = "fix_files_returned"
    /\ pc' = "status"
    /\ UNCHANGED <<tools_config, root_commits, tx>>
    /\ CmdUnchanged

\* Line 157: .block_on()? on what fix_files returned.
CmdFixFilesReturned ==
    /\ pc = "fix_files_returned"
    /\ pc' = IF fix_files_result = "Ok" THEN "status" ELSE "done_err"
    /\ UNCHANGED <<tools_config, root_commits, tx>>
    /\ CmdUnchanged

\* Lines 158-163: writeln!(ui.status(), ..)?
CmdStatus ==
    /\ pc = "status"
    /\ \E status_ok \in BOOLEAN :
         pc' = IF status_ok THEN "finish" ELSE "done_err"
    /\ UNCHANGED <<tools_config, root_commits, tx>>
    /\ CmdUnchanged

\* Line 164: tx.finish(ui, ..)
CmdFinish ==
    /\ pc = "finish"
    /\ \E finish_ok \in BOOLEAN :
         IF finish_ok
         THEN tx' = "finished" /\ pc' = "done_ok"
         ELSE tx' = "finish_failed" /\ pc' = "done_err"
    /\ UNCHANGED <<tools_config, root_commits>>
    /\ CmdUnchanged

(***************************************************************************)
(* Spec: one run of cmd_fix.                                               *)
(***************************************************************************)
CmdIdle ==
    /\ pc = "workspace_helper"
    /\ tools_config = Err("")
    /\ root_commits = {}
    /\ tx = "none"
    /\ files_done = 0
    /\ fix_error = FALSE
    /\ fix_files_result = "none"
    /\ spawned = FALSE
    /\ store = {}
    /\ fpc = "idle"
    /\ file_to_fix = NoFile
    /\ matching_tools = <<>>
    /\ old_content = NoContent
    /\ new_content = NoContent
    /\ log = <<>>
    /\ last_run = NoRun
    /\ reads = 0
    /\ writes = 0
    /\ result = Ok(None)

CfgIdle ==
    /\ table = <<>>
    /\ table_keys = <<>>
    /\ cfg_result = Err("")

PipeIdle ==
    /\ ppc = "idle"
    /\ wpc = "idle"
    /\ tpc = "none"
    /\ capacity = 0
    /\ input_left = 0
    /\ stdin_pipe = 0
    /\ stdin_open = <<FALSE, FALSE>>
    /\ write_failed = FALSE
    /\ child = NoTool
    /\ saw_eof = FALSE
    /\ output_left = <<>>
    /\ stdout_pipe = <<>>
    /\ output = <<>>
    /\ run_result = Err("")

ColorIdle ==
    /\ hpc = "idle"
    /\ num_shown = 0

StatIdle ==
    /\ spc = "idle"
    /\ stats = <<>>
    /\ max_path_length = 0
    /\ max_diffs = 0
    /\ term_width = <<>>
    /\ display_width = 0
    /\ max_bar_length = 0

WordsIdle ==
    /\ cpc = "idle"
    /\ diff_lines = <<>>
    /\ context = <<>>
    /\ skipped_context = FALSE
    /\ context_before = TRUE

DiffIdle ==
    /\ WordsIdle
    /\ StatIdle
    /\ ColorIdle
    /\ dpc = "idle"
    /\ diff = <<>>
    /\ num_context_lines = 0
    /\ hunks = <<>>
    /\ current_hunk = NewHunk(1, 1)
    /\ show_context_after = FALSE
    /\ left_value = "absent"
    /\ right_value = "absent"
    /\ out = <<>>

Init ==
    /\ CmdIdle
    /\ CfgIdle
    /\ PipeIdle
    /\ DiffIdle

Next ==
    \/ CmdWorkspaceHelper
    \/ CmdGetToolsConfig
    \/ CmdRevsets
    \/ CmdCheckRewritable
    \/ CmdParseFilePatterns
    \/ CmdStartTransaction
    \/ FixFilesCall
    \/ FixFilter
    \/ FixRead
    \/ FixRunTool
    \/ FixCompare
    \/ FixWrite
    \/ FixFilesCollect
    \/ FixFilesReturn
    \/ CmdFixFilesReturned
    \/ CmdStatus
    \/ CmdFinish

Spec == Init /\ [][Next]_vars

(***************************************************************************)
(* SpecCfg: get_tools_config on every table of at most MaxTools keys, in   *)
(* every enumeration order of the keys.                                    *)
(***************************************************************************)
InitCfg ==
    /\ CmdIdle
    /\ PipeIdle
    /\ DiffIdle
    /\ table \in Tables
    /\ table_keys \in Enumerations(DOMAIN table)
    /\ cfg_result = Err("pending")

CfgLoad ==
    /\ cfg_result = Err("pending")
    /\ cfg_result' = get_tools_config(table_keys, table)
    /\ UNCHANGED <<table, table_keys, cmdVars, fileVars, pipeVars, diffVars, wordsVars, statVars, colorVars>>

NextCfg ==
    CfgLoad

SpecCfg == InitCfg /\ [][NextCfg]_vars

(***************************************************************************)
(* Claims about fix_one_file and run_tool, under Spec.                     *)
(***************************************************************************)
\* The configured tools whose matcher accepts the path, from tool i on.
RECURSIVE AcceptedFrom(_, _, _)
AcceptedFrom(i, tools, repo_path) ==
    IF i > Len(tools) THEN <<>>
    ELSE (IF repo_path \in tools[i].matcher THEN <<i>> ELSE <<>>)
         \o AcceptedFrom(i + 1, tools, repo_path)

Accepted == AcceptedFrom(1, tools_config.val, file_to_fix.repo_path)

\* The left fold over logged runs: a failed run is the identity, a run that
\* succeeded gives its stdout.
RECURSIVE LeftFold(_, _)
LeftFold(content, runs) ==
    IF runs = <<>> THEN content
    ELSE LeftFold(IF Head(runs).ok THEN Head(runs).out ELSE content, Tail(runs))

\* The fold of the current call is over (the file was read, every tool ran).
FoldOver ==
    /\ fpc \in {"write_file", "returned"}
    /\ result.err # "read"

\* C1: when fix_one_file's fold is over, the tools that ran are exactly the
\* configured tools whose matcher accepts the path, in configured order (so
\* no failure kept a later one from running), each got the fold of the runs
\* before it as input, and the final bytes are the left fold over them with a
\* failed tool as the identity and a successful tool giving its stdout.
C1_FoldOverMatchingTools ==
    FoldOver =>
        /\ [i \in 1..Len(log) |-> log[i].tool] = Accepted
        /\ \A i \in 1..Len(log) :
             log[i].input = LeftFold(ContentOf(file_to_fix.file_id), SubSeq(log, 1, i - 1))
        /\ Accepted # <<>> =>
             new_content = LeftFold(ContentOf(file_to_fix.file_id), log)

\* A call whose first tool failed and whose second tool then changed the bytes.
C1_Witness ==
    /\ fpc = "returned"
    /\ Len(log) = 2
    /\ ~log[1].ok
    /\ log[2].ok
    /\ new_content = log[2].out
    /\ new_content # old_content

\* C2: a returned call wrote the store once if the bytes after the last tool
\* differ from the bytes read and not at all otherwise; it returns a new
\* content id exactly when that write succeeded, the id of the final bytes;
\* with no matching tool it returns None without a read or a write.
C2_WriteIffChanged ==
    /\ writes <= 1
    /\ fpc = "returned" =>
        /\ writes = (IF FoldOver /\ Accepted # <<>> /\ new_content # old_content
                     THEN 1 ELSE 0)
        /\ (result.ok /\ result.val # None) <=> (writes = 1 /\ result.err # "write")
        /\ (result.ok /\ result.val # None) =>
             /\ result.val = Some(FileIdOf(new_content))
             /\ new_content \in store
        /\ Accepted = <<>> => (reads = 0 /\ writes = 0 /\ result = Ok(None))

\* A call of two tools that changed the bytes and wrote them.
C2_Witness ==
    /\ fpc = "returned"
    /\ Len(log) = 2
    /\ writes = 1
    /\ result.ok
    /\ result.val = Some(FileIdOf(new_content))

\* C3: the last run_tool call changed the accumulator only if the subprocess
\* was spawned, waited on without error and exited with success, and then to
\* its stdout; after a spawn error, a wait error or a failure status run_tool
\* returned Err and the accumulator is the run's input.
C3_StdoutOnlyOnSuccess ==
    log # <<>> =>
        LET last == log[Len(log)] IN
        /\ last.ok <=> (last_run.spawn /\ last_run.wait /\ last_run.success)
        /\ last.ok => new_content = last_run.stdout
        /\ ~last.ok => new_content = last.input

\* A tool that wrote other bytes to stdout and exited with a failure status.
C3_Witness ==
    /\ log # <<>>
    /\ last_run.spawn /\ last_run.wait /\ ~last_run.success
    /\ last_run.stdout # log[Len(log)].input
    /\ new_content = log[Len(log)].input

\* C4 (as claimed): if writing the input to the tool's stdin failed, run_tool
\* returned Err and the accumulator is unchanged, whatever the exit status.
C4_WriteErrorIsFailure ==
    (log # <<>> /\ last_run.spawn /\ ~last_run.write) =>
        /\ ~log[Len(log)].ok
        /\ new_content = log[Len(log)].input

(***************************************************************************)
(* Claims about cmd_fix, under Spec.                                       *)
(***************************************************************************)
ConfigLoaded == pc \notin {"workspace_helper", "get_tools_config"}
RootsChecked == pc \notin {"workspace_helper", "get_tools_config", "revsets", "check_rewritable"}

\* C6: a transaction is started, a tool run or the store written only when
\* the configuration has loaded and every root commit is rewritable; with an
\* invalid configuration or a root that is not rewritable the command has
\* ended with an error, and has done none of these.
C6_NothingBeforeChecks ==
    /\ (tx # "none" \/ spawned \/ store # {} \/ fpc # "idle") =>
         /\ tools_config.ok
         /\ RootsChecked
         /\ \A c \in root_commits : Rewritable(c)
    /\ (ConfigLoaded /\ ~tools_config.ok) => pc = "done_err"
    /\ (RootsChecked /\ \E c \in root_commits : ~Rewritable(c)) => pc = "done_err"

\* The command ended at the rewritable check.
C6_Witness ==
    /\ pc = "done_err"
    /\ tools_config.ok
    /\ "immutable" \in root_commits
    /\ tx = "none"

\* C7: tx.finish is reached only after fix_files returned Ok, hence after no
\* per-file fix returned an error; once fix_files has returned an error the
\* command ends with an error and the transaction is not finished.
C7_FinishOnlyAfterFixFiles ==
    /\ (pc \in {"status", "finish", "done_ok"} \/ tx \in {"finished", "finish_failed"}) =>
         (fix_files_result = "Ok" /\ ~fix_error)
    /\ fix_files_result = "Err" => (pc \in {"fix_files_returned", "done_err"} /\ tx = "started")

\* A write error of a per-file fix ended the command, the transaction open.
C7_Witness ==
    /\ pc = "done_err"
    /\ fix_files_result = "Err"
    /\ result.err = "write"
    /\ tx = "started"

(***************************************************************************)
(* Claims about get_tools_config, under SpecCfg.                           *)
(***************************************************************************)
CfgDone == cfg_result # Err("pending")

AllLoad ==
    \A k \in DOMAIN table :
        table[k].deserializes /\ \A arg \in table[k].patterns : PatternParses(arg)

\* C8: a tool list get_tools_config returns is not empty, holds enabled
\* entries only, namely every enabled key of the table once, and is in
\* ascending order of the keys, whatever order the keys were enumerated in.
C8_ToolsSortedEnabled ==
    (CfgDone /\ cfg_result.ok) =>
        LET tools == cfg_result.val IN
        /\ tools # <<>>
        /\ \A i \in 1..Len(tools) : tools[i].enabled
        /\ \A i, j \in 1..Len(tools) : i < j => StrLess(tools[i].name, tools[j].name)
        /\ {tools[i].name : i \in 1..Len(tools)} = {k \in DOMAIN table : table[k].enabled}

\* Two enabled tools whose keys were enumerated in descending order.
C8_Witness ==
    /\ CfgDone
    /\ cfg_result.ok
    /\ Len(cfg_result.val) = 2
    /\ table_keys[1] = cfg_result.val[2].name

\* C9: for a table whose entries all deserialize and parse, the result is
\* the "No fix.tools are configured" error exactly for the empty table, the
\* "At least one entry ... must be enabled" error exactly for a table with
\* entries that are all disabled, and Ok in every other case.
C9_ConfigErrors ==
    (CfgDone /\ AllLoad) =>
        /\ cfg_result = Err("No fix.tools are configured") <=> DOMAIN table = {}
        /\ cfg_result = Err("At least one entry of fix.tools must be enabled.")
             <=> (DOMAIN table # {} /\ \A k \in DOMAIN table : ~table[k].enabled)
        /\ cfg_result.ok <=> \E k \in DOMAIN table : table[k].enabled

\* A table of two entries, both disabled.
C9_Witness ==
    /\ CfgDone
    /\ AllLoad
    /\ Cardinality(DOMAIN table) = 2
    /\ \A k \in DOMAIN table : ~table[k].enabled
    /\ ~cfg_result.ok

(***************************************************************************)
(* SpecPipe: one call of run_tool (fix.rs 244-263) with its scoped writer  *)
(* thread, the tool, and the stdin and stdout pipes of bounded capacity.   *)
(***************************************************************************)
\* The tools (the doc comment, lines 62-65): a tool takes the content on
\* stdin and returns content on stdout. Its order of reading and writing:
\*   read_first   reads stdin to end-of-input, then writes stdout, then exits
\*   write_first  writes its stdout, then reads stdin to end-of-input, exits
\*   any          reads and writes in any interleaving, exits at end-of-input
\*   lazy         as any, but may exit without having read all of stdin
Tools == [order : {"read_first", "write_first", "any", "lazy"}, status : {0, 1}]

InitPipe ==
    /\ CmdIdle
    /\ CfgIdle
    /\ DiffIdle
    /\ ppc = "spawn"
    /\ wpc = "idle"
    /\ tpc = "none"
    /\ capacity \in 1..MaxPipe
    /\ input_left \in 0..MaxInput
    /\ stdin_pipe = 0
    /\ stdin_open = <<FALSE, FALSE>>
    /\ write_failed = FALSE
    /\ child = NoTool
    /\ saw_eof = FALSE
    /\ output_left = <<>>
    /\ stdout_pipe = <<>>
    /\ output = <<>>
    /\ run_result = Err("")

PipeUnchanged ==
    UNCHANGED <<capacity, cmdVars, fileVars, cfgVars, diffVars, wordsVars, statVars, colorVars>>

\* Lines 244-250: command.spawn().or(Err(()))?
RunToolSpawn ==
    /\ ppc = "spawn"
    /\ \E spawn_ok \in BOOLEAN :
         IF spawn_ok
         THEN /\ child' \in Tools
              /\ \E n \in 0..MaxOutput : output_left' = [i \in 1..n |-> i]
              /\ tpc' = "running"
              /\ stdin_open' = <<TRUE, TRUE>>
              /\ ppc' = "scope"
              /\ run_result' = run_result
         ELSE /\ ppc' = "returned"
              /\ run_result' = Err("spawn")
              /\ UNCHANGED <<child, output_left, tpc, stdin_open>>
    /\ UNCHANGED <<wpc, input_left, stdin_pipe, write_failed, saw_eof, stdout_pipe, output>>
    /\ PipeUnchanged

\* Lines 251-255: the scope spawns the writer thread and this thread enters
\* child.wait_with_output().
RunToolScope ==
    /\ ppc = "scope"
    /\ wpc' = "writing"
    /\ ppc' = "read_stdout"
    /\ UNCHANGED <<tpc, input_left, stdin_pipe, stdin_open, write_failed, child,
                   saw_eof, output_left, stdout_pipe, output, run_result>>
    /\ PipeUnchanged

\* Line 253, write_all: one more byte goes into the pipe; the write blocks
\* while the pipe is full.
WriterWrite ==
    /\ wpc = "writing"
    /\ input_left > 0
    /\ stdin_open[2]
    /\ stdin_pipe < capacity
    /\ input_left' = input_left - 1
    /\ stdin_pipe' = stdin_pipe + 1
    /\ UNCHANGED <<ppc, wpc, tpc, stdin_open, write_failed, child, saw_eof,
                   output_left, stdout_pipe, output, run_result>>
    /\ PipeUnchanged

\* Line 253, write_all fails: the read end is closed. .ok() drops the error,
\* the closure ends and stdin is dropped.
WriterBrokenPipe ==
    /\ wpc = "writing"
    /\ input_left > 0
    /\ ~stdin_open[2]
    /\ write_failed' = TRUE
    /\ wpc' = "done"
    /\ stdin_open' = <<FALSE, stdin_open[2]>>
    /\ UNCHANGED <<ppc, tpc, input_left, stdin_pipe, child, saw_eof, output_left,
                   stdout_pipe, output, run_result>>
    /\ PipeUnchanged

\* Lines 253-254: write_all is over, the closure ends and stdin, moved into
\* it, is dropped: the write end closes.
WriterDone ==
    /\ wpc = "writing"
    /\ input_left = 0
    /\ wpc' = "done"
    /\ stdin_open' = <<FALSE, stdin_open[2]>>
    /\ UNCHANGED <<ppc, tpc, input_left, stdin_pipe, write_failed, child, saw_eof,
                   output_left, stdout_pipe, output, run_result>>
    /\ PipeUnchanged

\* The tool reads a byte of its stdin.
ToolRead ==
    /\ tpc = "running"
    /\ stdin_pipe > 0
    /\ child.order = "write_first" => output_left = <<>>
    /\ stdin_pipe' = stdin_pipe - 1
    /\ UNCHANGED <<ppc, wpc, tpc, input_left, stdin_open, write_failed, child,
                   saw_eof, output_left, stdout_pipe, output, run_result>>
    /\ PipeUnchanged

\* The tool reads end-of-input: the pipe is empty and its write end closed.
ToolEof ==
    /\ tpc = "running"
    /\ ~saw_eof
    /\ stdin_pipe = 0
    /\ ~stdin_open[1]
    /\ child.order = "write_first" => output_left = <<>>
    /\ saw_eof' = TRUE
    /\ UNCHANGED <<ppc, wpc, tpc, input_left, stdin_pipe, stdin_open, write_failed,
                   child, output_left, stdout_pipe, output, run_result>>
    /\ PipeUnchanged

\* The tool writes a byte to its stdout; the write blocks while the pipe is
\* full.
ToolWrite ==
    /\ tpc = "running"
    /\ output_left # <<>>
    /\ Len(stdout_pipe) < capacity
    /\ child.order = "read_first" => saw_eof
    /\ stdout_pipe' = Append(stdout_pipe, Head(output_left))
    /\ output_left' = Tail(output_left)
    /\ UNCHANGED <<ppc, wpc, tpc, input_left, stdin_pipe, stdin_open, write_failed,
                   child, saw_eof, output, run_result>>
    /\ PipeUnchanged

\* The tool exits: its ends of both pipes close, unread input is discarded.
ToolExit ==
    /\ tpc = "running"
    /\ output_left = <<>>
    /\ child.order # "lazy" => saw_eof
    /\ tpc' = "exited"
    /\ stdin_open' = <<stdin_open[1], FALSE>>
    /\ stdin_pipe' = 0
    /\ UNCHANGED <<ppc, wpc, input_left, write_failed, child, saw_eof, output_left,
                   stdout_pipe, output, run_result>>
    /\ PipeUnchanged

\* A plausible slip: the exit of the tool is awaited before stdout is read.
WaitReadAfterExit ==
    /\ ppc = "read_stdout"
    /\ tpc = "exited"
    /\ stdout_pipe # <<>>
    /\ output' = Append(output, Head(stdout_pipe))
    /\ stdout_pipe' = Tail(stdout_pipe)
    /\ UNCHANGED <<ppc, wpc, tpc, input_left, stdin_pipe, stdin_open, write_failed,
                   child, saw_eof, output_left, run_result>>
    /\ PipeUnchanged

\* Line 255, wait_with_output: the thread that called run_tool reads a byte
\* of the tool's stdout.
WaitRead ==
    /\ ppc = "read_stdout"
    /\ stdout_pipe # <<>>
    /\ output' = Append(output, Head(stdout_pipe))
    /\ stdout_pipe' = Tail(stdout_pipe)
    /\ UNCHANGED <<ppc, wpc, tpc, input_left, stdin_pipe, stdin_open, write_failed,
                   child, saw_eof, output_left, run_result>>
    /\ PipeUnchanged

\* Lines 255-263, wait_with_output returns: stdout is at its end and the
\* tool has exited; the wait may fail. The Result run_tool will return is
\* fixed here.
WaitExit ==
    /\ ppc = "read_stdout"
    /\ stdout_pipe = <<>>
    /\ tpc = "exited"
    /\ \E wait_ok \in BOOLEAN :
         run_result' = run_tool([spawn |-> TRUE, write |-> ~write_failed,
                                 wait |-> wait_ok, success |-> child.status = 0,
                                 stdout |-> output])
    /\ ppc' = "join"
    /\ UNCHANGED <<wpc, tpc, input_left, stdin_pipe, stdin_open, write_failed,
                   child, saw_eof, output_left, stdout_pipe, output>>
    /\ PipeUnchanged

\* Lines 256-257: the scope ends once the writer thread has ended, and
\* run_tool returns.
ScopeJoin ==
    /\ ppc = "join"
    /\ wpc = "done"
    /\ ppc' = "returned"
    /\ UNCHANGED <<wpc, tpc, input_left, stdin_pipe, stdin_open, write_failed,
                   child, saw_eof, output_left, stdout_pipe, output, run_result>>
    /\ PipeUnchanged

NextPipe ==
    \/ RunToolSpawn
    \/ RunToolScope
    \/ WriterWrite
    \/ WriterBrokenPipe
    \/ WriterDone
    \/ ToolRead
    \/ ToolEof
    \/ ToolWrite
    \/ ToolExit
    \/ WaitRead
    \/ WaitExit
    \/ ScopeJoin

\* The threads and the tool are scheduled by the operating system: whoever
\* can take a step eventually takes one.
SpecPipe == InitPipe /\ [][NextPipe]_vars /\ WF_vars(NextPipe)

(***************************************************************************)
(* Claims about run_tool's pipes, under SpecPipe.                          *)
(***************************************************************************)
PipeReturned == ppc = "returned"

\* C5: run_tool never reaches a state where it has not returned and neither
\* the writer thread, nor the thread in wait_with_output, nor the tool can
\* take a step; when the writer has ended the write end of stdin is closed,
\* so that the tool reads end-of-input; and run_tool eventually returns.
C5_NoPipeDeadlock ==
    /\ [](~PipeReturned => ENABLED NextPipe)
    /\ [](wpc = "done" => ~stdin_open[1])
    /\ <>PipeReturned

\* Both pipes are full, the writer and the tool both have bytes left to
\* write, and the tool writes before it reads.
C5_Witness ==
    /\ wpc = "writing"
    /\ tpc = "running"
    /\ child.order = "write_first"
    /\ input_left > 0
    /\ stdin_pipe = capacity
    /\ output_left # <<>>
    /\ Len(stdout_pipe) = capacity

(***************************************************************************)
(* SpecDiff: unified_diff_hunks (diff_util.rs 534-612), one iteration of   *)
(* `for hunk in diff.hunks()` at a time, for every diff of two contents of *)
(* at most MaxLines lines and every num_context_lines up to MaxContext.    *)
(***************************************************************************)
NL == 10

\* The bytes of a line: a letter for where the line is (109 'm' in both
\* contents, 108 'l' in the left only, 114 'r' in the right only), a digit
\* for its number, and the newline unless the content ends without one.
Line(letter, number, newline) ==
    <<letter, 48 + number>> \o (IF newline THEN <<NL>> ELSE <<>>)

\* Lines first..last, the last one without newline if ~newline.
LinesOf(letter, first, last, newline) ==
    [k \in 1..(last - first + 1) |->
        Line(letter, first + k - 1, newline \/ first + k - 1 < last)]

RECURSIVE Flatten(_)
Flatten(seqs) ==
    IF seqs = <<>> THEN <<>> ELSE Head(seqs) \o Flatten(Tail(seqs))

\* content.split_inclusive(|b| *b == b'\n').collect_vec(): the lines of
\* content, each with its newline; `line` is the line being read.
RECURSIVE split_inclusive_from(_, _)
split_inclusive_from(content, line) ==
    IF content = <<>> THEN (IF line = <<>> THEN <<>> ELSE <<line>>)
    ELSE IF Head(content) = NL
         THEN <<Append(line, NL)>> \o split_inclusive_from(Tail(content), <<>>)
    ELSE split_inclusive_from(Tail(content), Append(line, Head(content)))

split_inclusive(content) ==
    split_inclusive_from(content, <<>>)

\* The contents the hunks yielded so far are the diff of.
RECURSIVE SideOf(_, _)
SideOf(side, ds) ==
    IF ds = <<>> THEN <<>> ELSE Head(ds)[side] \o SideOf(side, Tail(ds))

left_content == SideOf("left", diff)
right_content == SideOf("right", diff)

NumLines(content) == Len(split_inclusive(content))

\* The number of lines of a side of the hunks yielded so far: each line of
\* LinesOf is three bytes, or two if it is the last and has no newline.
LinesYielded(side) ==
    (Len(SideOf(side, diff)) + 2) \div 3

\* A content that ends without newline has no further line.
Unterminated(content) ==
    content # <<>> /\ content[Len(content)] # NL

saturating_sub(a, b) ==
    IF a > b THEN a - b ELSE 0

\* A plausible slip: all the lines are taken as the context after a change.
min_not(a, b) ==
    a

Min(a, b) ==
    IF a < b THEN a ELSE b

\* A plausible slip: the end of the range moves by one line, not by n.
advance_one(range, n) ==
    [range EXCEPT !.end = @ + 1]

\* range.end += n
Advance(range, n) ==
    [range EXCEPT !.end = @ + n]

\* current_hunk.lines.push((line_type, line)) for each of lines.
Push(hunk_lines, line_type, lines) ==
    hunk_lines \o [k \in 1..Len(lines) |-> [line_type |-> line_type, content |-> lines[k]]]

InitDiff ==
    /\ CmdIdle
    /\ CfgIdle
    /\ PipeIdle
    /\ dpc = "loop"
    /\ diff = <<>>
    /\ num_context_lines \in 0..MaxContext
    /\ hunks = <<>>
    /\ current_hunk = NewHunk(1, 1)
    /\ show_context_after = FALSE
    /\ left_value = "absent"
    /\ right_value = "absent"
    /\ out = <<>>
    /\ WordsIdle
    /\ StatIdle
    /\ ColorIdle

DiffUnchanged ==
    UNCHANGED <<num_context_lines, left_value, right_value, out,
                cmdVars, fileVars, cfgVars, pipeVars, wordsVars, statVars, colorVars>>

\* The next hunk of the diff may follow: no content has ended without a
\* newline, and Matching and Different hunks alternate.
MayYield(kind) ==
    /\ dpc = "loop"
    /\ ~Unterminated(left_content)
    /\ ~Unterminated(right_content)
    /\ diff # <<>> => diff[Len(diff)].kind # kind

\* A plausible slip: the new hunk starts where the old one ended.
start_after_skip_not(range_end, num_skip_lines) ==
    range_end

\* Lines 567-568: where the hunk after the skipped lines starts.
start_after_skip(range_end, num_skip_lines) ==
    range_end + num_skip_lines

\* The state of the loop: lines 539-545 at its start.
BuilderStart ==
    [hunks |-> <<>>, current_hunk |-> NewHunk(1, 1), show_context_after |-> FALSE]

BuilderState ==
    [hunks |-> hunks, current_hunk |-> current_hunk,
     show_context_after |-> show_context_after]

\* Lines 549-584: the loop body for DiffHunk::Matching(content).
on_matching(st, content, C) ==
    LET lines == split_inclusive(content)
        num_after_lines ==
            Min(Len(lines), IF st.show_context_after THEN C ELSE 0)
        after == [st.current_hunk EXCEPT
            !.left_line_range = Advance(@, num_after_lines),
            !.right_line_range = Advance(@, num_after_lines),
            !.lines = Push(@, "Context", SubSeq(lines, 1, num_after_lines))]
        num_skip_lines ==
            saturating_sub(saturating_sub(Len(lines), num_after_lines), C)
        left_start == start_after_skip(after.left_line_range.end, num_skip_lines)
        right_start == start_after_skip(after.right_line_range.end, num_skip_lines)
        skipped == IF num_skip_lines > 0
                   THEN NewHunk(left_start, right_start) ELSE after
        num_before_lines == Len(lines) - num_after_lines - num_skip_lines
    IN  [hunks |-> IF num_skip_lines > 0 /\ after.lines # <<>>
                   THEN Append(st.hunks, after) ELSE st.hunks,
         current_hunk |-> [skipped EXCEPT
            !.left_line_range = Advance(@, num_before_lines),
            !.right_line_range = Advance(@, num_before_lines),
            !.lines = Push(@, "Context",
                           SubSeq(lines, num_after_lines + num_skip_lines + 1,
                                  Len(lines)))],
         show_context_after |-> st.show_context_after]

\* Lines 585-601: the loop body for DiffHunk::Different(content).
on_different(st, left, right) ==
    LET left_lines == split_inclusive(left)
        right_lines == split_inclusive(right)
        removed == IF left_lines # <<>>
                   THEN [st.current_hunk EXCEPT
                           !.left_line_range = Advance(@, Len(left_lines)),
                           !.lines = Push(@, "Removed", left_lines)]
                   ELSE st.current_hunk
    IN  [hunks |-> st.hunks,
         current_hunk |-> IF right_lines # <<>>
                          THEN [removed EXCEPT
                                  !.right_line_range = Advance(@, Len(right_lines)),
                                  !.lines = Push(@, "Added", right_lines)]
                          ELSE removed,
         show_context_after |-> TRUE]

\* A plausible slip: the last hunk is pushed if it has lines, as a hunk that
\* a skip closes is (line 569).
after_loop_nonempty(st) ==
    IF st.current_hunk.lines # <<>>
    THEN Append(st.hunks, st.current_hunk) ELSE st.hunks

\* Lines 604-611: the hunks returned after the loop.
after_loop(st) ==
    IF ~(\A k \in 1..Len(st.current_hunk.lines) :
            st.current_hunk.lines[k].line_type = "Context")
    THEN Append(st.hunks, st.current_hunk) ELSE st.hunks

\* Lines 549-584: the diff yields a Matching hunk.
DiffMatching ==
    /\ MayYield("Matching")
    /\ \E n \in 1..(MaxLines - LinesYielded("left")), newline \in BOOLEAN :
         /\ LinesYielded("right") + n <= MaxLines
         /\ LET first == LinesYielded("left") + 1
                content == Flatten(LinesOf(109, first, first + n - 1, newline))
                st == on_matching(BuilderState, content, num_context_lines)
            IN
            /\ diff' = Append(diff, [kind |-> "Matching", left |-> content, right |-> content])
            /\ hunks' = st.hunks
            /\ current_hunk' = st.current_hunk
    /\ UNCHANGED <<dpc, show_context_after>>
    /\ DiffUnchanged

\* Lines 585-601: the diff yields a Different hunk.
DiffDifferent ==
    /\ MayYield("Different")
    /\ \E nl \in 0..(MaxLines - LinesYielded("left")),
          nr \in 0..(MaxLines - LinesYielded("right")),
          newline_l \in BOOLEAN, newline_r \in BOOLEAN :
         /\ nl + nr > 0
         /\ nl = 0 => newline_l
         /\ nr = 0 => newline_r
         /\ LET first_l == LinesYielded("left") + 1
                first_r == LinesYielded("right") + 1
                content == [left |-> Flatten(LinesOf(108, first_l, first_l + nl - 1, newline_l)),
                            right |-> Flatten(LinesOf(114, first_r, first_r + nr - 1, newline_r))]
                st == on_different(BuilderState, content.left, content.right)
            IN
            /\ diff' = Append(diff, [kind |-> "Different", left |-> content.left,
                                     right |-> content.right])
            /\ current_hunk' = st.current_hunk
            /\ show_context_after' = st.show_context_after
    /\ UNCHANGED <<dpc, hunks>>
    /\ DiffUnchanged

\* A plausible slip: the last hunk is pushed whatever its lines are.
DiffReturnAlways ==
    /\ dpc = "loop"
    /\ hunks' = Append(hunks, current_hunk)
    /\ dpc' = "returned"
    /\ UNCHANGED <<diff, current_hunk, show_context_after>>
    /\ DiffUnchanged

\* Lines 604-611: the diff has no further hunk; the last hunk is pushed
\* unless all its lines are context, and hunks is returned.
DiffReturn ==
    /\ dpc = "loop"
    /\ hunks' = after_loop(BuilderState)
    /\ dpc' = "returned"
    /\ UNCHANGED <<diff, current_hunk, show_context_after>>
    /\ DiffUnchanged

\* What a write to the formatter leaves in the output: the label it is
\* written under, the text of write_str/writeln and the bytes of write_all.
Item(label, str, bytes) ==
    [label |-> label, str |-> str, bytes |-> bytes]

\* Range<usize>::len().
RangeLen(range) ==
    saturating_sub(range.end, range.start)

\* Lines 623 and 625: the start shown in the hunk header.
range_start(range) ==
    range.start

\* Lines 620-627: the hunk header.
hunk_header(hunk) ==
    "@@ -" \o ToString(range_start(hunk.left_line_range))
    \o "," \o ToString(RangeLen(hunk.left_line_range))
    \o " +" \o ToString(range_start(hunk.right_line_range))
    \o "," \o ToString(RangeLen(hunk.right_line_range)) \o " @@\n"

\* Lines 628-652: a line of a hunk.
RECURSIVE show_hunk_lines(_)
show_hunk_lines(hunk_lines) ==
    IF hunk_lines = <<>> THEN <<>>
    ELSE LET line == Head(hunk_lines)
             shown == CASE line.line_type = "Context" -> Item("context", " ", line.content)
                        [] line.line_type = "Removed" -> Item("removed", "-", line.content)
                        [] line.line_type = "Added" -> Item("added", "+", line.content)
         IN  <<shown>>
             \o (IF Unterminated(line.content) \/ line.content = <<>>
                 THEN <<Item("", "\n\\ No newline at end of file\n", <<>>)>> ELSE <<>>)
             \o show_hunk_lines(Tail(hunk_lines))

\* Lines 619-653, for the hunks of unified_diff_hunks(left, right, 3).
RECURSIVE show_unified_diff_hunks(_)
show_unified_diff_hunks(hs) ==
    IF hs = <<>> THEN <<>>
    ELSE <<Item("hunk_header", hunk_header(Head(hs)), <<>>)>>
         \o show_hunk_lines(Head(hs).lines)
         \o show_unified_diff_hunks(Tail(hs))

\* The values a present side of a changed path has in a diff.
TreeValues == {"file", "executable", "symlink", "submodule", "conflict"}

\* The number of context lines show_unified_diff_hunks asks for (line 619).
GitContextLines == 3

\* git_diff_part (lines 474-519): the mode of a present value.
git_mode(value) ==
    CASE value = "executable" -> "100755"
      [] value = "file" -> "100644"
      [] value = "symlink" -> "120000"
      [] value = "submodule" -> "040000"
      [] value = "conflict" -> "100644"

FileHeader(strs) ==
    [k \in 1..Len(strs) |-> Item("file_header", strs[k], <<>>)]

\* Lines 666-711 for the path "p": the file header written for the two values
\* of the path, the hashes being shown as <l> and <r>.
git_file_header(left, right, hash_differs) ==
    IF left = "absent"
    THEN FileHeader(<<"diff --git a/p b/p\n", "new file mode " \o git_mode(right) \o "\n",
                      "index 0000000000..<r>\n", "--- /dev/null\n", "+++ b/p\n">>)
    ELSE IF right # "absent"
    THEN FileHeader(<<"diff --git a/p b/p\n">>
            \o (IF git_mode(left) # git_mode(right)
                THEN <<"old mode " \o git_mode(left) \o "\n",
                       "new mode " \o git_mode(right) \o "\n">>
                     \o (IF hash_differs THEN <<"index <l>...<r>\n">> ELSE <<>>)
                ELSE IF hash_differs
                THEN <<"index <l>...<r> " \o git_mode(left) \o "\n">>
                ELSE <<>>)
            \o (IF left_content # right_content
                THEN <<"--- a/p\n", "+++ b/p\n">> ELSE <<>>))
    ELSE FileHeader(<<"diff --git a/p b/p\n", "deleted file mode " \o git_mode(left) \o "\n",
                      "index <l>..0000000000\n", "--- a/p\n", "+++ /dev/null\n">>)

\* The tree diff yields a path with these two values and contents of these
\* hashes: not both absent; an absent value and a submodule have no content;
\* contents of one kind have the same hash exactly when they are equal, a
\* conflict has the hash 0000000000; and the two values differ somehow.
TreeDiffYields(left, right, hash_differs) ==
    /\ left # "absent" \/ right # "absent"
    /\ left \in {"absent", "submodule"} => left_content = <<>>
    /\ right \in {"absent", "submodule"} => right_content = <<>>
    /\ (left \in {"file", "executable"} /\ right \in {"file", "executable"})
         => (hash_differs <=> left_content # right_content)
    /\ (left = "symlink" /\ right = "symlink")
         => (hash_differs <=> left_content # right_content)
    /\ (left = "conflict" /\ right = "conflict") => ~hash_differs
    /\ (left = "conflict") # (right = "conflict") => hash_differs
    /\ (left = right /\ left # "conflict") => hash_differs
    /\ left = "absent" \/ right = "absent" => hash_differs

\* Lines 664-711: show_git_diff for one path of the tree diff, the hunks
\* being those unified_diff_hunks returned for its contents.
ShowGitDiff ==
    /\ dpc = "returned"
    /\ num_context_lines = GitContextLines
    /\ LinesYielded("left") <= MaxShown
    /\ LinesYielded("right") <= MaxShown
    /\ \E left \in TreeValues \cup {"absent"}, right \in TreeValues \cup {"absent"},
          hash_differs \in BOOLEAN :
         /\ TreeDiffYields(left, right, hash_differs)
         /\ left_value' = left
         /\ right_value' = right
         /\ out' = git_file_header(left, right, hash_differs)
                   \o show_unified_diff_hunks(hunks)
    /\ dpc' = "shown"
    /\ UNCHANGED <<diff, hunks, current_hunk, show_context_after, num_context_lines,
                   cmdVars, fileVars, cfgVars, pipeVars, wordsVars, statVars, colorVars>>

NextDiff ==
    \/ DiffMatching
    \/ DiffDifferent
    \/ DiffReturn
    \/ ShowGitDiff

SpecDiff == InitDiff /\ [][NextDiff]_vars

\* unified_diff_hunks (lines 534-612) for the hunks a diff yields.
RECURSIVE builder_loop(_, _, _)
builder_loop(st, segments, C) ==
    IF segments = <<>> THEN st
    ELSE LET hunk == Head(segments)
         IN  builder_loop(IF hunk.kind = "Matching"
                          THEN on_matching(st, hunk.left, C)
                          ELSE on_different(st, hunk.left, hunk.right),
                          Tail(segments), C)

unified_diff_hunks(segments, C) ==
    after_loop(builder_loop(BuilderStart, segments, C))

(***************************************************************************)
(* SpecWords: show_color_words_diff_hunks (diff_util.rs 219-285), one      *)
(* iteration of `for diff_line in files::diff(left, right)` at a time, for *)
(* every diff of at most MaxDiffLines lines, MaxModified of them modified. *)
(***************************************************************************)
\* The context window of the renderer (line 225).
WordsContextLines == 3

SKIPPED_CONTEXT_LINE == Item("", "    ...\n", <<>>)

Matching(data) == [kind |-> "Matching", left |-> data, right |-> data]
Different(before, after) == [kind |-> "Different", left |-> before, right |-> after]

\* The DiffLine of the given kind that files::diff yields as line number
\* left_number of the left and right_number of the right content: a line of
\* both contents ("unmodified"), of both with a changed word ("changed"), of
\* the left only ("removed") or of the right only ("added").
DiffLine(kind, left_number, right_number, newline) ==
    LET end == IF newline THEN <<NL>> ELSE <<>>
    IN  [left_line_number |-> left_number,
         right_line_number |-> right_number,
         has_left_content |-> kind # "added",
         has_right_content |-> kind # "removed",
         hunks |-> CASE kind = "unmodified" ->
                            <<Matching(<<109, 48 + (left_number % 10)>> \o end)>>
                     [] kind = "changed" ->
                            <<Matching(<<99, 48 + (left_number % 10)>>),
                              Different(<<108>>, <<114>>)>>
                            \o (IF newline THEN <<Matching(end)>> ELSE <<>>)
                     [] kind = "removed" ->
                            <<Different(<<108, 48 + (left_number % 10)>> \o end, <<>>)>>
                     [] kind = "added" ->
                            <<Different(<<>>, <<114, 48 + (right_number % 10)>> \o end)>>]

\* DiffLine::is_unmodified (line 232).
is_unmodified(diff_line) ==
    \A k \in 1..Len(diff_line.hunks) : diff_line.hunks[k].kind = "Matching"

\* "{:>4}" of a line number.
RightAlign4(n) ==
    CASE n < 10 -> "   " \o ToString(n)
      [] n >= 10 /\ n < 100 -> "  " \o ToString(n)
      [] n >= 100 /\ n < 1000 -> " " \o ToString(n)
      [] OTHER -> ToString(n)

\* Lines 311-327: the hunks of a line.
RECURSIVE show_line_hunks(_)
show_line_hunks(line_hunks) ==
    IF line_hunks = <<>> THEN <<>>
    ELSE LET hunk == Head(line_hunks)
         IN  (IF hunk.kind = "Matching" THEN <<Item("", "", hunk.left)>>
              ELSE (IF hunk.left # <<>> THEN <<Item("removed", "", hunk.left)>> ELSE <<>>)
                   \o (IF hunk.right # <<>> THEN <<Item("added", "", hunk.right)>> ELSE <<>>))
             \o show_line_hunks(Tail(line_hunks))

\* show_color_words_diff_line (lines 287-330).
show_color_words_diff_line(diff_line) ==
    (IF diff_line.has_left_content
     THEN <<Item("removed", RightAlign4(diff_line.left_line_number), <<>>), Item("", " ", <<>>)>>
     ELSE <<Item("", "     ", <<>>)>>)
    \o (IF diff_line.has_right_content
        THEN <<Item("added", RightAlign4(diff_line.right_line_number), <<>>), Item("", ": ", <<>>)>>
        ELSE <<Item("", "    : ", <<>>)>>)
    \o show_line_hunks(diff_line.hunks)

RECURSIVE show_lines(_)
show_lines(lines) ==
    IF lines = <<>> THEN <<>>
    ELSE show_color_words_diff_line(Head(lines)) \o show_lines(Tail(lines))

\* context.drain(..n): the deque without its first n lines.
Drain(deque, n) ==
    SubSeq(deque, n + 1, Len(deque))

\* Lines 226-230: the state the loop starts in.
WordsStart ==
    [context |-> <<>>, skipped_context |-> FALSE, context_before |-> TRUE, out |-> <<>>]

\* A plausible slip: when skipping starts one line is drained, not two.
WordsUnmodifiedDrainOne(st, diff_line) ==
    LET pushed == Append(st.context, diff_line)
        C == WordsContextLines
        popped == IF st.context_before /\ st.skipped_context /\ Len(pushed) > C
                  THEN Drain(pushed, 1) ELSE pushed
        drains == ~st.context_before /\ Len(pushed) > C * 2 + 1
        start_skipping_context ==
            \/ st.context_before /\ ~st.skipped_context /\ Len(pushed) > C + 1
            \/ drains
        drained == IF drains THEN Drain(popped, C) ELSE popped
        shown == IF drains THEN show_lines(SubSeq(popped, 1, C)) ELSE <<>>
    IN  IF start_skipping_context
        THEN [context |-> Drain(drained, 1),
              skipped_context |-> TRUE,
              context_before |-> TRUE,
              out |-> st.out \o shown \o <<SKIPPED_CONTEXT_LINE>>]
        ELSE [st EXCEPT !.context = drained, !.out = @ \o shown]

\* Lines 232-252: the loop body for an unmodified line.
WordsUnmodified(st, diff_line) ==
    LET pushed == Append(st.context, diff_line)
        C == WordsContextLines
        popped == IF st.context_before /\ st.skipped_context /\ Len(pushed) > C
                  THEN Drain(pushed, 1) ELSE pushed
        drains == ~st.context_before /\ Len(pushed) > C * 2 + 1
        start_skipping_context ==
            \/ st.context_before /\ ~st.skipped_context /\ Len(pushed) > C + 1
            \/ drains
        drained == IF drains THEN Drain(popped, C) ELSE popped
        shown == IF drains THEN show_lines(SubSeq(popped, 1, C)) ELSE <<>>
    IN  IF start_skipping_context
        THEN [context |-> Drain(drained, 2),
              skipped_context |-> TRUE,
              context_before |-> TRUE,
              out |-> st.out \o shown \o <<SKIPPED_CONTEXT_LINE>>]
        ELSE [st EXCEPT !.context = drained, !.out = @ \o shown]

\* A plausible slip: the lines kept as context before a modified line are
\* cleared without being printed.
WordsModifiedNoContext(st, diff_line) ==
    [context |-> <<>>,
     skipped_context |-> FALSE,
     context_before |-> FALSE,
     out |-> st.out \o show_color_words_diff_line(diff_line)]

\* Lines 253-261: the loop body for a modified line.
WordsModified(st, diff_line) ==
    [context |-> <<>>,
     skipped_context |-> FALSE,
     context_before |-> FALSE,
     out |-> st.out \o show_lines(st.context) \o show_color_words_diff_line(diff_line)]

WordsStep(st, diff_line) ==
    IF is_unmodified(diff_line) THEN WordsUnmodified(st, diff_line)
    ELSE WordsModified(st, diff_line)

ends_with_newline(content) ==
    content # <<>> /\ content[Len(content)] = NL

\* A plausible slip: the lines after the last modified line are all printed.
WordsTrailingAll(st) ==
    [st EXCEPT !.out = @ \o show_lines(st.context)]

\* Lines 263-275: after the loop, the lines after the last modified line.
WordsTrailing(st) ==
    IF st.context_before THEN st
    ELSE LET truncates == Len(st.context) > WordsContextLines + 1
             kept == IF truncates THEN SubSeq(st.context, 1, WordsContextLines)
                     ELSE st.context
         IN  [context |-> kept,
              skipped_context |-> st.skipped_context \/ truncates,
              context_before |-> truncates,
              out |-> st.out \o show_lines(kept)
                      \o (IF truncates THEN <<SKIPPED_CONTEXT_LINE>> ELSE <<>>)]

\* Lines 277-282: the newline added when neither content ends with one.
WordsLastNewline(st, left, right) ==
    LET no_hunk == left = <<>> /\ right = <<>>
        any_last_newline == ends_with_newline(left) \/ ends_with_newline(right)
    IN  IF ~st.skipped_context /\ ~no_hunk /\ ~any_last_newline
        THEN [st EXCEPT !.out = @ \o <<Item("", "\n", <<>>)>>]
        ELSE st

\* The left or right content the yielded lines are the diff of.
RECURSIVE LineSide(_, _)
LineSide(side, line_hunks) ==
    IF line_hunks = <<>> THEN <<>>
    ELSE Head(line_hunks)[side] \o LineSide(side, Tail(line_hunks))

RECURSIVE ContentOfLines(_, _)
ContentOfLines(side, lines) ==
    IF lines = <<>> THEN <<>>
    ELSE LineSide(side, Head(lines).hunks) \o ContentOfLines(side, Tail(lines))

words_left == ContentOfLines("left", diff_lines)
words_right == ContentOfLines("right", diff_lines)

NumModified == Cardinality({k \in 1..Len(diff_lines) : ~is_unmodified(diff_lines[k])})

\* The number the next line of a side has.
NextLineNumber(side) ==
    1 + Cardinality({k \in 1..Len(diff_lines) :
                        ends_with_newline(LineSide(side, diff_lines[k].hunks))})

InitWords ==
    /\ CmdIdle
    /\ CfgIdle
    /\ PipeIdle
    /\ dpc = "idle"
    /\ diff = <<>>
    /\ num_context_lines = 0
    /\ hunks = <<>>
    /\ current_hunk = NewHunk(1, 1)
    /\ show_context_after = FALSE
    /\ left_value = "absent"
    /\ right_value = "absent"
    /\ StatIdle
    /\ ColorIdle
    /\ cpc = "loop"
    /\ diff_lines = <<>>
    /\ context = WordsStart.context
    /\ skipped_context = WordsStart.skipped_context
    /\ context_before = WordsStart.context_before
    /\ out = WordsStart.out

WordsUnchanged ==
    UNCHANGED <<dpc, diff, num_context_lines, hunks, current_hunk, show_context_after,
                left_value, right_value, cmdVars, fileVars, cfgVars, pipeVars, statVars, colorVars>>

WordsState ==
    [context |-> context, skipped_context |-> skipped_context,
     context_before |-> context_before, out |-> out]

WordsSet(st) ==
    /\ context' = st.context
    /\ skipped_context' = st.skipped_context
    /\ context_before' = st.context_before
    /\ out' = st.out

\* Lines 231-262: files::diff yields a further line, of some kind; only the
\* last line of the contents may lack its newline.
WordsLine ==
    /\ cpc = "loop"
    /\ Len(diff_lines) < MaxDiffLines
    /\ diff_lines # <<>> =>
         \/ ends_with_newline(LineSide("left", diff_lines[Len(diff_lines)].hunks))
         \/ ends_with_newline(LineSide("right", diff_lines[Len(diff_lines)].hunks))
    /\ \E kind \in {"unmodified", "changed", "removed", "added"}, newline \in BOOLEAN :
         /\ kind # "unmodified" => NumModified < MaxModified
         /\ LET diff_line == DiffLine(kind, NextLineNumber("left"),
                                      NextLineNumber("right"), newline)
            IN  /\ diff_lines' = Append(diff_lines, diff_line)
                /\ WordsSet(WordsStep(WordsState, diff_line))
    /\ UNCHANGED cpc
    /\ WordsUnchanged

\* Lines 263-284: files::diff has no further line.
WordsReturn ==
    /\ cpc = "loop"
    /\ WordsSet(WordsLastNewline(WordsTrailing(WordsState), words_left, words_right))
    /\ cpc' = "returned"
    /\ UNCHANGED diff_lines
    /\ WordsUnchanged

NextWords ==
    \/ WordsLine
    \/ WordsReturn

SpecWords == InitWords /\ [][NextWords]_vars

(***************************************************************************)
(* Claims about unified_diff_hunks, under SpecDiff.                        *)
(***************************************************************************)
\* The Context and Added lines of a hunk.
RECURSIVE RightLinesOf(_)
RightLinesOf(hunk_lines) ==
    IF hunk_lines = <<>> THEN <<>>
    ELSE (IF Head(hunk_lines).line_type \in {"Context", "Added"}
          THEN <<Head(hunk_lines).content>> ELSE <<>>)
         \o RightLinesOf(Tail(hunk_lines))

\* The lines from line number `next` on, with the lines of each hunk's left
\* range replaced by the hunk's Context and Added lines.
RECURSIVE Patch(_, _, _)
Patch(lines, next, hs) ==
    IF hs = <<>> THEN SubSeq(lines, next, Len(lines))
    ELSE SubSeq(lines, next, Head(hs).left_line_range.start - 1)
         \o RightLinesOf(Head(hs).lines)
         \o Patch(lines, Head(hs).left_line_range.end, Tail(hs))

\* C10: replacing in the left content the lines of each returned hunk's left
\* range by the hunk's Context and Added lines, the other lines kept, gives
\* the right content.
C10_HunksRoundTrip ==
    dpc = "returned" =>
        Flatten(Patch(split_inclusive(left_content), 1, hunks)) = right_content

\* Two hunks with skipped lines before, between and after them, the second
\* replacing its left lines by a different number of lines.
C10_Witness ==
    /\ dpc = "returned"
    /\ Len(hunks) = 2
    /\ hunks[1].left_line_range.start > 1
    /\ hunks[2].left_line_range.start > hunks[1].left_line_range.end
    /\ hunks[2].left_line_range.end < NumLines(left_content)
    /\ hunks[2].right_line_range.end - hunks[2].right_line_range.start
         # hunks[2].left_line_range.end - hunks[2].left_line_range.start

\* C11: the hunks returned for two equal contents are none, whatever the
\* number of context lines.
C11_EqualContentsNoHunks ==
    (dpc = "returned" /\ left_content = right_content) => hunks = <<>>

\* Equal contents of more lines than twice the context, so that lines are
\* skipped and lines are kept as context.
C11_Witness ==
    /\ dpc = "returned"
    /\ left_content = right_content
    /\ num_context_lines > 0
    /\ NumLines(left_content) > 2 * num_context_lines
    /\ hunks = <<>>

\* The number of Context lines hunk_lines starts with.
RECURSIVE LeadingContext(_)
LeadingContext(hunk_lines) ==
    IF hunk_lines = <<>> \/ Head(hunk_lines).line_type # "Context" THEN 0
    ELSE 1 + LeadingContext(Tail(hunk_lines))

\* The number of Context lines hunk_lines ends with.
RECURSIVE TrailingContext(_)
TrailingContext(hunk_lines) ==
    IF hunk_lines = <<>> \/ hunk_lines[Len(hunk_lines)].line_type # "Context" THEN 0
    ELSE 1 + TrailingContext(SubSeq(hunk_lines, 1, Len(hunk_lines) - 1))

\* C12 (as claimed): every returned hunk has at most num_context_lines
\* Context lines before its first and after its last Added or Removed line.
C12_ContextAtMostC ==
    dpc = "returned" =>
        \A i \in 1..Len(hunks) :
            /\ LeadingContext(hunks[i].lines) <= num_context_lines
            /\ TrailingContext(hunks[i].lines) <= num_context_lines

\* The lines a hunk of the diff gives rise to: the lines of a Matching hunk
\* as Context, those of a Different hunk as Removed, then Added.
SegLines(seg) ==
    IF seg.kind = "Matching" THEN Push(<<>>, "Context", split_inclusive(seg.left))
    ELSE Push(Push(<<>>, "Removed", split_inclusive(seg.left)),
              "Added", split_inclusive(seg.right))

IsInfix(part, whole) ==
    \E k \in 0..(Len(whole) - Len(part)) : SubSeq(whole, k + 1, k + Len(part)) = part

IsPrefix(part, whole) ==
    Len(part) <= Len(whole) /\ SubSeq(whole, 1, Len(part)) = part

IsSuffix(part, whole) ==
    Len(part) <= Len(whole)
    /\ SubSeq(whole, Len(whole) - Len(part) + 1, Len(whole)) = part

\* The Matching hunks of the diff that stand between two Different hunks.
Gaps == {j \in 2..(Len(diff) - 1) : diff[j].kind = "Matching"}

\* C13: m matching lines between two differing segments are, when
\* m <= 2*C, all Context lines of the one hunk that holds both segments; when
\* m > 2*C the segments are in two successive hunks, the first ending with
\* the first C matching lines and the second starting with the last C, and the
\* second hunk's ranges start m - 2*C lines after the first hunk's ranges end.
C13_CoalescingThreshold ==
    dpc = "returned" =>
        \A j \in Gaps :
            LET m == NumLines(diff[j].left)
                C == num_context_lines
                between == SegLines(diff[j])
            IN  IF m <= 2 * C
                THEN \E h \in 1..Len(hunks) :
                        IsInfix(SegLines(diff[j - 1]) \o between \o SegLines(diff[j + 1]),
                                hunks[h].lines)
                ELSE \E h \in 1..(Len(hunks) - 1) :
                        /\ IsSuffix(SegLines(diff[j - 1]) \o SubSeq(between, 1, C),
                                    hunks[h].lines)
                        /\ IsPrefix(SubSeq(between, m - C + 1, m) \o SegLines(diff[j + 1]),
                                    hunks[h + 1].lines)
                        /\ hunks[h + 1].left_line_range.start
                             = hunks[h].left_line_range.end + (m - 2 * C)
                        /\ hunks[h + 1].right_line_range.start
                             = hunks[h].right_line_range.end + (m - 2 * C)

\* Two segments split into two hunks by five matching lines with two lines of
\* context, one matching line being skipped.
C13_Witness ==
    /\ dpc = "returned"
    /\ num_context_lines = 2
    /\ \E j \in Gaps : NumLines(diff[j].left) = 5
    /\ Len(hunks) = 2
    /\ hunks[2].left_line_range.start = hunks[1].left_line_range.end + 1

\* C14 (as claimed): for an added path with content of N >= 1 lines the Git
\* format shows one hunk, with the header @@ -0,0 +1,N @@.
C14_AddedFileHeader ==
    (dpc = "shown" /\ left_value = "absent" /\ right_content # <<>>) =>
        /\ Len(hunks) = 1
        /\ \E k \in 1..Len(out) :
            /\ out[k].label = "hunk_header"
            /\ out[k].str = "@@ -0,0 +1," \o ToString(NumLines(right_content)) \o " @@\n"

\* C15: for a path present on both sides, the Git format writes the lines
\* --- a/p and +++ b/p exactly when the contents differ, and exactly then
\* the hunks returned for three context lines, and shown, are some.
C15_HeaderIffDiffers ==
    /\ (dpc = "returned" /\ num_context_lines = GitContextLines) =>
            (hunks # <<>> <=> left_content # right_content)
    /\ (dpc = "shown" /\ left_value # "absent" /\ right_value # "absent") =>
            /\ (\E k \in 1..Len(out) : out[k] = Item("file_header", "--- a/p\n", <<>>))
                  <=> left_content # right_content
            /\ (\E k \in 1..Len(out) : out[k] = Item("file_header", "+++ b/p\n", <<>>))
                  <=> left_content # right_content
            /\ (\E k \in 1..Len(out) : out[k].label = "hunk_header")
                  <=> left_content # right_content

\* A file whose last lines changed, shown with its --- and +++ lines and one
\* hunk that starts with three lines of context.
C15_Witness ==
    /\ dpc = "shown"
    /\ left_value = "file"
    /\ right_value = "file"
    /\ left_content # right_content
    /\ Len(out) > 4
    /\ out[2] = Item("file_header", "index <l>...<r> 100644\n", <<>>)
    /\ out[3] = Item("file_header", "--- a/p\n", <<>>)
    /\ out[5].label = "hunk_header"
    /\ out[5].str = "@@ -1,4 +1,4 @@\n"

(***************************************************************************)
(* Claims about show_color_words_diff_hunks, under SpecWords.              *)
(***************************************************************************)
NEWLINE_ITEM == Item("", "\n", <<>>)

\* The bytes written as line bodies under one of the labels.
RECURSIVE Projection(_, _)
Projection(labels, items) ==
    IF items = <<>> THEN <<>>
    ELSE (IF Head(items).label \in labels THEN Head(items).bytes ELSE <<>>)
         \o Projection(labels, Tail(items))

IsBodyItem(item) == item # SKIPPED_CONTEXT_LINE /\ item # NEWLINE_ITEM

\* items is what rendering some of lines, in order, writes, every line left
\* out being unmodified.
RECURSIVE KeptInOrder(_, _)
KeptInOrder(items, lines) ==
    IF lines = <<>> THEN items = <<>>
    ELSE LET shown == show_color_words_diff_line(Head(lines))
         IN  IF IsPrefix(shown, items)
             THEN KeptInOrder(SubSeq(items, Len(shown) + 1, Len(items)), Tail(lines))
             ELSE is_unmodified(Head(lines)) /\ KeptInOrder(items, Tail(lines))

NumMarkers == Cardinality({k \in 1..Len(out) : out[k] = SKIPPED_CONTEXT_LINE})

\* C16 (as claimed): the line bodies written, those under "removed" left
\* out, are the right content, and, those under "added" left out, the left.
C16_NeverDropsLine ==
    cpc = "returned" =>
        /\ Projection({"", "added"}, out) = words_right
        /\ Projection({"", "removed"}, out) = words_left

\* C16 (amended): what is written besides skip markers and the added newline
\* is the rendering of the diff's lines in order with only unmodified lines
\* left out; and when some line is modified and no skip marker is written no
\* line is left out, the bodies giving the right and the left content.
C16_DropsOnlyUnmodified ==
    cpc = "returned" =>
        /\ KeptInOrder(SelectSeq(out, IsBodyItem), diff_lines)
        /\ (NumModified > 0 /\ NumMarkers = 0) =>
              /\ Projection({"", "added"}, out) = words_right
              /\ Projection({"", "removed"}, out) = words_left

\* Two modified lines with unmodified lines left out at a skip marker.
C16_Witness ==
    /\ cpc = "returned"
    /\ NumModified = 2
    /\ NumMarkers > 0
    /\ Projection({"", "added"}, out) # words_right
    /\ Projection({"", "removed"}, out) # words_left

\* C17 (as claimed): for equal contents, of any number of lines, nothing is
\* written: no line, no skip marker, no newline.
C17_IdenticalWritesNothing ==
    (cpc = "returned" /\ words_left = words_right /\ NumModified = 0) => out = <<>>

LastModified ==
    CHOOSE k \in 1..Len(diff_lines) :
        /\ ~is_unmodified(diff_lines[k])
        /\ \A j \in (k + 1)..Len(diff_lines) : is_unmodified(diff_lines[j])

\* The unmodified lines after the last modified line.
TrailingLines == SubSeq(diff_lines, LastModified + 1, Len(diff_lines))

\* What is written after the last modified line.
OutAfterLastModified ==
    LET upto == Len(show_lines(SubSeq(diff_lines, LastModified, LastModified)))
        at == CHOOSE k \in 0..(Len(out) - upto) :
                /\ SubSeq(out, k + 1, k + upto) = show_color_words_diff_line(diff_lines[LastModified])
        IN  SubSeq(out, at + upto + 1, Len(out))

\* The number of lines among items: each line has one colon.
NumPrinted(items) ==
    Cardinality({k \in 1..Len(items) : items[k].str \in {": ", "    : "}})

\* C18 (as claimed): at most three unmodified lines are printed after the
\* last modified line, and a skip marker is written after it exactly when
\* some of the lines after it are not printed.
C18_TrailingAtMostC ==
    (cpc = "returned" /\ NumModified > 0) =>
        /\ NumPrinted(OutAfterLastModified) <= WordsContextLines
        /\ (\E k \in 1..Len(OutAfterLastModified) :
                OutAfterLastModified[k] = SKIPPED_CONTEXT_LINE)
             <=> NumPrinted(OutAfterLastModified) < Len(TrailingLines)

\* C18 (amended): up to four unmodified lines after the last modified line
\* are all printed; of five or more the first three are printed and then one
\* skip marker is written; a marker is written exactly when lines are left
\* out. Nothing else follows the last modified line but the added newline.
C18_TrailingAtMostCPlusOne ==
    (cpc = "returned" /\ NumModified > 0) =>
        LET t == Len(TrailingLines)
            kept == IF t <= WordsContextLines + 1 THEN t ELSE WordsContextLines
            written == show_color_words_diff_line(diff_lines[LastModified])
                       \o show_lines(SubSeq(TrailingLines, 1, kept))
                       \o (IF kept < t THEN <<SKIPPED_CONTEXT_LINE>> ELSE <<>>)
        IN  \/ IsSuffix(written, out)
            \/ IsSuffix(written \o <<NEWLINE_ITEM>>, out)

\* Four unmodified lines after the last modified line, all printed.
C18_Witness ==
    /\ cpc = "returned"
    /\ NumModified > 0
    /\ Len(TrailingLines) = 4
    /\ NumPrinted(OutAfterLastModified) = 4
    /\ NumMarkers = 0

(***************************************************************************)
(* SpecStat: show_diff_stat (diff_util.rs 775-836), one path of the tree   *)
(* diff at a time, then the histogram.                                     *)
(***************************************************************************)
\* The paths of the tree diff, in the order it yields them.
StatPaths == <<<<97>>, <<98, 98>>, <<99, 99, 99>>>>

\* The width assumed when the terminal's is unknown (line 794).
DefaultTermWidth == 80

\* The model's usize has 30 bits: TLC's integers have 32.
UsizeModulus == 1073741824

\* The diff of a path's contents: a line in both, then `removed` lines of the
\* left only and `added` lines of the right only.
StatDiff(removed, added) ==
    <<Matching(Line(109, 1, TRUE))>>
    \o (IF removed + added > 0
        THEN <<Different(Flatten(LinesOf(108, 2, 1 + removed, TRUE)),
                         Flatten(LinesOf(114, 2, 1 + added, TRUE)))>>
        ELSE <<>>)

NumOfType(hs, line_type) ==
    LET lines == Flatten([k \in 1..Len(hs) |-> hs[k].lines])
    IN  Cardinality({k \in 1..Len(lines) : lines[k].line_type = line_type})

\* get_diff_stat (lines 755-773).
get_diff_stat(path, segments) ==
    LET hs == unified_diff_hunks(segments, 0)
    IN  [path |-> path, added |-> NumOfType(hs, "Added"),
         removed |-> NumOfType(hs, "Removed")]

Max(a, b) ==
    IF a > b THEN a ELSE b

RECURSIVE Repeat(_, _)
Repeat(str, n) ==
    IF n <= 0 THEN "" ELSE str \o Repeat(str, n - 1)

\* n.to_string().len()
Digits(n) ==
    Len(ToString(n))

\* (n as f64 * factor).ceil() as usize, the factor being num/den taken
\* exactly; 0.0 / 0.0 is NaN, and NaN as usize is 0.
ceil_scaled(n, factor) ==
    IF factor.den = 0 THEN 0
    ELSE (n * factor.num + factor.den - 1) \div factor.den

InitStat ==
    /\ CmdIdle
    /\ CfgIdle
    /\ PipeIdle
    /\ dpc = "idle"
    /\ diff = <<>>
    /\ num_context_lines = 0
    /\ hunks = <<>>
    /\ current_hunk = NewHunk(1, 1)
    /\ show_context_after = FALSE
    /\ left_value = "absent"
    /\ right_value = "absent"
    /\ out = <<>>
    /\ WordsIdle
    /\ ColorIdle
    /\ spc = "loop"
    /\ stats = <<>>
    /\ max_path_length = 0
    /\ max_diffs = 0
    /\ term_width = <<>>
    /\ display_width = 0
    /\ max_bar_length = 0

StatUnchanged ==
    UNCHANGED <<dpc, diff, num_context_lines, hunks, current_hunk, show_context_after,
                left_value, right_value, cmdVars, fileVars, cfgVars, pipeVars, wordsVars,
                colorVars>>

\* Lines 784-792: the tree diff yields a further path.
StatEntry ==
    /\ spc = "loop"
    /\ \E i \in 1..Len(StatPaths), removed \in 0..MaxStat, added \in 0..MaxStat :
         /\ stats # <<>> => i > Len(stats[Len(stats)].path)
         /\ LET path == StatPaths[i]
                stat == get_diff_stat(path, StatDiff(removed, added))
            IN  /\ max_path_length' = Max(max_path_length, Len(path))
                /\ max_diffs' = Max(max_diffs, stat.added + stat.removed)
                /\ stats' = Append(stats, stat)
    /\ UNCHANGED <<spc, term_width, display_width, max_bar_length, out>>
    /\ StatUnchanged

\* Lines 807-822: the rows of the histogram.
RECURSIVE stat_rows(_, _, _, _)
stat_rows(rows, path_width, number_padding, factor) ==
    IF rows = <<>> THEN <<>>
    ELSE LET stat == Head(rows)
             bar_added == ceil_scaled(stat.added, factor)
             bar_removed == ceil_scaled(stat.removed, factor)
             total == stat.added + stat.removed
         IN  <<Item("", "", stat.path),
               Item("", Repeat(" ", path_width - Len(stat.path)) \o " | "
                        \o Repeat(" ", number_padding - Digits(total)) \o ToString(total)
                        \o (IF bar_added + bar_removed > 0 THEN " " ELSE ""), <<>>),
               Item("added", Repeat("+", bar_added), <<>>),
               Item("removed", Repeat("-", bar_removed) \o "\n", <<>>)>>
             \o stat_rows(Tail(rows), path_width, number_padding, factor)

RECURSIVE Total(_, _)
Total(rows, field) ==
    IF rows = <<>> THEN 0 ELSE Head(rows)[field] + Total(Tail(rows), field)

Plural(n) ==
    IF n = 1 THEN "" ELSE "s"

\* Lines 823-832: the summary line.
stat_summary(rows) ==
    Item("stat-summary",
         ToString(Len(rows)) \o " file" \o Plural(Len(rows)) \o " changed, "
         \o ToString(Total(rows, "added")) \o " insertion" \o Plural(Total(rows, "added"))
         \o "(+), " \o ToString(Total(rows, "removed")) \o " deletion"
         \o Plural(Total(rows, "removed")) \o "(-)\n", <<>>)

\* Lines 794-835: the tree diff has no further path. The subtraction of line
\* 794 panics on underflow in a build with overflow checks and wraps around
\* in one without.
StatShow ==
    /\ spc = "loop"
    /\ \E tw \in {<<>>} \cup {<<w>> : w \in 0..MaxTermWidth}, overflow_checks \in BOOLEAN :
         LET width == IF tw = <<>> THEN DefaultTermWidth ELSE tw[1]
             dw == (width - 4) % UsizeModulus
             mbl == saturating_sub(dw, max_path_length + Len(" | ") + Digits(max_diffs))
             factor == IF max_diffs < mbl THEN [num |-> 1, den |-> 1]
                       ELSE [num |-> mbl, den |-> max_diffs]
             number_padding == Digits(max_diffs)
         IN  /\ term_width' = tw
             /\ IF width < 4 /\ overflow_checks
                THEN /\ spc' = "panicked"
                     /\ UNCHANGED <<display_width, max_bar_length, out>>
                ELSE /\ spc' = "shown"
                     /\ display_width' = dw
                     /\ max_bar_length' = mbl
                     /\ out' = stat_rows(stats, max_path_length, number_padding, factor)
                               \o <<stat_summary(stats)>>
    /\ UNCHANGED <<stats, max_path_length, max_diffs>>
    /\ StatUnchanged

NextStat ==
    \/ StatEntry
    \/ StatShow

SpecStat == InitStat /\ [][NextStat]_vars

(***************************************************************************)
(* Claims about show_diff_stat, under SpecStat.                            *)
(***************************************************************************)
\* C19 (as claimed): in every row the + and the - together are at most
\* max_bar_length.
C19_BarsWithinMaxBarLength ==
    spc = "shown" =>
        \A k \in 1..(Len(out) - 1) :
            (out[k].label = "added" /\ out[k + 1].label = "removed") =>
                Len(out[k].str) + (Len(out[k + 1].str) - 1) <= max_bar_length

(***************************************************************************)
(* SpecColor: show_color_words_diff (diff_util.rs 385-466), one path of    *)
(* the tree diff at a time.                                                *)
(***************************************************************************)
\* show_color_words_diff_hunks (lines 219-285) for the lines of a diff.
RECURSIVE words_loop(_, _)
words_loop(st, lines) ==
    IF lines = <<>> THEN st
    ELSE words_loop(WordsStep(st, Head(lines)), Tail(lines))

show_color_words_diff_hunks(lines) ==
    WordsLastNewline(WordsTrailing(words_loop(WordsStart, lines)),
                     ContentOfLines("left", lines), ContentOfLines("right", lines)).out

\* basic_diff_file_type (lines 363-383) of a present value.
basic_diff_file_type(value) ==
    CASE value = "executable" -> "executable file"
      [] value = "file" -> "regular file"
      [] value = "symlink" -> "symlink"
      [] value = "submodule" -> "Git submodule"
      [] value = "conflict" -> "conflict"

\* Lines 439-443: the type with its first letter in upper case.
Capitalized(type) ==
    CASE type = "executable file" -> "Executable file"
      [] type = "regular file" -> "Regular file"
      [] type = "symlink" -> "Symlink"
      [] type = "Git submodule" -> "Git submodule"
      [] type = "conflict" -> "Conflict"

IsFile(value) == value \in {"file", "executable"}

\* Lines 409-447: the description of a path present on both sides, the arms
\* of the match in their order.
description(left, right) ==
    IF IsFile(left) /\ IsFile(right)
    THEN (IF left = "executable" /\ right = "executable" THEN "Modified executable file"
          ELSE IF left = "executable" THEN "Executable file became non-executable at"
          ELSE IF right = "executable" THEN "Non-executable file became executable at"
          ELSE "Modified regular file")
    ELSE IF left = "conflict" /\ right = "conflict" THEN "Modified conflict in"
    ELSE IF left = "conflict" THEN "Resolved conflict in"
    ELSE IF right = "conflict" THEN "Created conflict in"
    ELSE IF left = "symlink" /\ right = "symlink" THEN "Symlink target changed at"
    ELSE Capitalized(basic_diff_file_type(left)) \o " became "
         \o basic_diff_file_type(right) \o " at"

\* The lines files::diff yields for the contents of a path: one line, or none
\* for empty contents; "same" for equal contents.
ColorDiffs(left, right) ==
    IF left = "absent"
    THEN {<<>>} \cup {<<DiffLine("added", 1, 1, newline)>> : newline \in BOOLEAN}
    ELSE IF right = "absent"
    THEN {<<>>} \cup {<<DiffLine("removed", 1, 1, newline)>> : newline \in BOOLEAN}
    ELSE {<<DiffLine(kind, 1, 1, newline)>> :
            kind \in IF left = right /\ left # "conflict" THEN {"changed"}
                     ELSE {"unmodified", "changed"},
            newline \in IF left = "submodule" \/ right = "submodule" THEN {FALSE}
                        ELSE BOOLEAN}

\* Lines 393-462: what is written for a path with these values and lines.
show_color_words_entry(left, right, lines) ==
    IF left = "absent"
    THEN <<Item("header", "Added " \o basic_diff_file_type(right) \o " p:\n", <<>>)>>
         \o (IF ContentOfLines("right", lines) = <<>>
             THEN <<Item("empty", "    (empty)\n", <<>>)>>
             ELSE show_color_words_diff_hunks(lines))
    ELSE IF right # "absent"
    THEN <<Item("header", description(left, right) \o " p:\n", <<>>)>>
         \o show_color_words_diff_hunks(lines)
    ELSE <<Item("header", "Removed " \o basic_diff_file_type(left) \o " p:\n", <<>>)>>
         \o (IF ContentOfLines("left", lines) = <<>>
             THEN <<Item("empty", "    (empty)\n", <<>>)>>
             ELSE show_color_words_diff_hunks(lines))

InitColor ==
    /\ CmdIdle
    /\ CfgIdle
    /\ PipeIdle
    /\ dpc = "idle"
    /\ diff = <<>>
    /\ num_context_lines = 0
    /\ hunks = <<>>
    /\ current_hunk = NewHunk(1, 1)
    /\ show_context_after = FALSE
    /\ left_value = "absent"
    /\ right_value = "absent"
    /\ out = <<>>
    /\ WordsIdle
    /\ StatIdle
    /\ hpc = "loop"
    /\ num_shown = 0

ColorUnchanged ==
    UNCHANGED <<dpc, diff, num_context_lines, hunks, current_hunk, show_context_after,
                cmdVars, fileVars, cfgVars, pipeVars, wordsVars, statVars>>

\* Lines 392-463: the tree diff yields a further path.
ColorEntry ==
    /\ hpc = "loop"
    /\ num_shown < MaxEntries
    /\ \E left \in TreeValues \cup {"absent"}, right \in TreeValues \cup {"absent"} :
         /\ left # "absent" \/ right # "absent"
         /\ \E lines \in ColorDiffs(left, right) :
              out' = out \o show_color_words_entry(left, right, lines)
         /\ left_value' = left
         /\ right_value' = right
    /\ num_shown' = num_shown + 1
    /\ UNCHANGED hpc
    /\ ColorUnchanged

\* Lines 464-465: the tree diff has no further path.
ColorDone ==
    /\ hpc = "loop"
    /\ hpc' = "done"
    /\ UNCHANGED <<num_shown, left_value, right_value, out>>
    /\ ColorUnchanged

NextColor ==
    \/ ColorEntry
    \/ ColorDone

SpecColor == InitColor /\ [][NextColor]_vars

(***************************************************************************)
(* Claims about show_color_words_diff, under SpecColor.                    *)
(***************************************************************************)
\* The header written for the path shown last.
LastHeader ==
    LET k == CHOOSE k \in 1..Len(out) :
                /\ out[k].label = "header"
                /\ \A j \in (k + 1)..Len(out) : out[j].label # "header"
    IN  out[k].str

TypeNames == {basic_diff_file_type(value) : value \in TreeValues}

\* The description by the rules in their order: both regular files; a
\* conflict on either side; both symlinks; a change of type.
RuleDescription(left, right) ==
    CASE IsFile(left) /\ IsFile(right) ->
            (CASE left = "executable" /\ right = "executable" -> "Modified executable file"
               [] left = "executable" /\ right = "file" -> "Executable file became non-executable at"
               [] left = "file" /\ right = "executable" -> "Non-executable file became executable at"
               [] left = "file" /\ right = "file" -> "Modified regular file")
      [] ~(IsFile(left) /\ IsFile(right)) /\ (left = "conflict" \/ right = "conflict") ->
            (CASE left = "conflict" /\ right = "conflict" -> "Modified conflict in"
               [] left = "conflict" /\ right # "conflict" -> "Resolved conflict in"
               [] left # "conflict" /\ right = "conflict" -> "Created conflict in")
      [] left = "symlink" /\ right = "symlink" -> "Symlink target changed at"
      [] OTHER -> Capitalized(basic_diff_file_type(left)) \o " became "
                  \o basic_diff_file_type(right) \o " at"

\* C20 (as claimed): the header of a path present on both sides is the
\* description of the first rule that applies, and it says that a type
\* became a type only when the two sides have different types.
C20_HeaderByFirstRule ==
    (num_shown > 0 /\ left_value # "absent" /\ right_value # "absent") =>
        /\ LastHeader = RuleDescription(left_value, right_value) \o " p:\n"
        /\ \A type \in TypeNames :
              LastHeader # Capitalized(type) \o " became " \o type \o " at p:\n"

(***************************************************************************)
(* Further claims about unified_diff_hunks, under SpecDiff.                *)
(***************************************************************************)
\* The contents of the lines of a hunk that have one of the types.
RECURSIVE LinesOfTypes(_, _)
LinesOfTypes(types, hunk_lines) ==
    IF hunk_lines = <<>> THEN <<>>
    ELSE (IF Head(hunk_lines).line_type \in types
          THEN <<Head(hunk_lines).content>> ELSE <<>>)
         \o LinesOfTypes(types, Tail(hunk_lines))

\* The lines of numbers start..(end - 1) of a content.
LinesInRange(content, range) ==
    SubSeq(split_inclusive(content), range.start, range.end - 1)

\* C21: the Context and Removed lines of every returned hunk are the lines of
\* its left range in the left content, its Context and Added lines are the
\* lines of its right range in the right content, both ranges being within
\* the contents; and each hunk's ranges start after the ranges of the hunk
\* before it have ended.
C21_RangesCoverLines ==
    dpc = "returned" =>
        /\ \A i \in 1..Len(hunks) :
            /\ 1 <= hunks[i].left_line_range.start
            /\ hunks[i].left_line_range.start <= hunks[i].left_line_range.end
            /\ hunks[i].left_line_range.end <= NumLines(left_content) + 1
            /\ 1 <= hunks[i].right_line_range.start
            /\ hunks[i].right_line_range.start <= hunks[i].right_line_range.end
            /\ hunks[i].right_line_range.end <= NumLines(right_content) + 1
            /\ LinesOfTypes({"Context", "Removed"}, hunks[i].lines)
                 = LinesInRange(left_content, hunks[i].left_line_range)
            /\ LinesOfTypes({"Context", "Added"}, hunks[i].lines)
                 = LinesInRange(right_content, hunks[i].right_line_range)
        /\ \A i \in 1..(Len(hunks) - 1) :
            /\ hunks[i].left_line_range.start < hunks[i + 1].left_line_range.start
            /\ hunks[i].left_line_range.end <= hunks[i + 1].left_line_range.start
            /\ hunks[i].right_line_range.start < hunks[i + 1].right_line_range.start
            /\ hunks[i].right_line_range.end <= hunks[i + 1].right_line_range.start

\* Two hunks with one line of context: the first removes lines only, the
\* second adds lines only, so that the numbers of the two sides differ.
C21_Witness ==
    /\ dpc = "returned"
    /\ Len(hunks) = 2
    /\ num_context_lines = 1
    /\ LinesOfTypes({"Context"}, hunks[1].lines) # <<>>
    /\ LinesOfTypes({"Removed"}, hunks[1].lines) # <<>>
    /\ LinesOfTypes({"Added"}, hunks[1].lines) = <<>>
    /\ LinesOfTypes({"Context"}, hunks[2].lines) # <<>>
    /\ LinesOfTypes({"Removed"}, hunks[2].lines) = <<>>
    /\ LinesOfTypes({"Added"}, hunks[2].lines) # <<>>
    /\ hunks[2].left_line_range.start # hunks[2].right_line_range.start
    /\ C21_RangesCoverLines

\* C22: every returned hunk has an Added or a Removed line, whether a skip
\* closed it or the end of the diff did, for every number of context lines.
C22_NoContextOnlyHunk ==
    \A i \in 1..Len(hunks) :
        LinesOfTypes({"Added", "Removed"}, hunks[i].lines) # <<>>

\* Without context lines: a hunk closed by a skip and one closed by the end
\* of the diff, the matching lines before, between and after them in none.
C22_Witness ==
    /\ dpc = "returned"
    /\ num_context_lines = 0
    /\ Len(diff) = 5
    /\ diff[1].kind = "Matching"
    /\ Len(hunks) = 2
    /\ C22_NoContextOnlyHunk

\* What items shows of lines k.. of the diff, in the order written: the
\* number of each line printed, 0 for a skip marker, and -1 where items is
\* the rendering of no later line.  The added newline shows nothing.
RECURSIVE Layout(_, _)
Layout(items, k) ==
    IF items = <<>> THEN <<>>
    ELSE IF Head(items) = SKIPPED_CONTEXT_LINE THEN <<0>> \o Layout(Tail(items), k)
    ELSE IF Head(items) = NEWLINE_ITEM THEN Layout(Tail(items), k)
    ELSE IF k > Len(diff_lines) THEN <<-1>>
    ELSE LET shown == show_color_words_diff_line(diff_lines[k])
         IN  IF IsPrefix(shown, items)
             THEN <<k>> \o Layout(SubSeq(items, Len(shown) + 1, Len(items)), k + 1)
             ELSE Layout(items, k + 1)

\* Between the printed lines of numbers prev and next stand markers skip
\* markers: one if lines of the diff between them are omitted, which are
\* then two or more and unmodified, and none otherwise.
MarkerIffOmitted(prev, next, markers) ==
    LET omitted == (prev + 1)..(next - 1)
    IN  /\ markers = (IF omitted # {} THEN 1 ELSE 0)
        /\ Cardinality(omitted) # 1
        /\ \A j \in omitted : is_unmodified(diff_lines[j])

RECURSIVE MarkersIffOmitted(_, _, _)
MarkersIffOmitted(layout, prev, markers) ==
    IF layout = <<>> THEN MarkerIffOmitted(prev, Len(diff_lines) + 1, markers)
    ELSE IF Head(layout) = 0 THEN MarkersIffOmitted(Tail(layout), prev, markers + 1)
    ELSE /\ Head(layout) > 0
         /\ MarkerIffOmitted(prev, Head(layout), markers)
         /\ MarkersIffOmitted(Tail(layout), Head(layout), 0)

\* C23: when some line is modified, a skip marker stands between two printed
\* lines (or before the first, or after the last) exactly when lines of the
\* diff are omitted there; the lines omitted at a marker are two or more;
\* and no two markers stand without a printed line between them.
C23_MarkerIffOmitted ==
    (cpc = "returned" /\ NumModified > 0) =>
        MarkersIffOmitted(Layout(out, 1), 0, 0)

\* One modified line with five unmodified lines before it and eight after:
\* a marker before the first printed line and one after the last.
C23_Witness ==
    /\ cpc = "returned"
    /\ NumModified = 1
    /\ NumMarkers = 2
    /\ Head(Layout(out, 1)) = 0
    /\ Layout(out, 1)[Len(Layout(out, 1))] = 0
    /\ Len(Layout(out, 1)) = 9

(***************************************************************************)
(* A further claim about show_diff_stat, under SpecStat.                   *)
(***************************************************************************)
\* C24 (as claimed): for every terminal width and every set of rows the
\* widths are computed without failure and without underflow: display_width
\* is no more than the terminal width, and max_bar_length is what
\* display_width leaves after the path column and the count column, 0 when
\* they fill it.
C24_WidthsWithoutUnderflow ==
    LET width == IF term_width = <<>> THEN DefaultTermWidth ELSE term_width[1]
    IN  /\ spc # "panicked"
        /\ spc = "shown" =>
              /\ display_width <= width
              /\ max_bar_length
                   = Max(0, display_width
                            - (max_path_length + Len(" | ") + Digits(max_diffs)))

====
